---- MODULE Spec2Model ----
(***************************************************************************)
(* DBMA orchestration layer: the self-healing execution loop               *)
(* (DBMAAgent.execute_with_healing), the rolling conversation memory       *)
(* (DBMAAgent._build_rolling_context / update_summary_if_needed over the   *)
(* PersistenceManager store), the turn orchestrator (DBMAAgent.chat) and   *)
(* the session registry (PersistenceManager.get_or_create_session).        *)
(***************************************************************************)
EXTENDS Integers, Sequences, FiniteSets, TLC

(***************************************************************************)
(* Program constants (src/core/agent.py).                                  *)
(***************************************************************************)
MAX_HEAL_ATTEMPTS == 3

RECENT_MESSAGES_COUNT == 40

(***************************************************************************)
(* Bounds of the model.                                                    *)
(***************************************************************************)
\* chat turns (and partition activations) started in one run
MaxTurns == 2

MaxSwitches == 2

\* calls of the session registry recorded in one run
MaxCalls == 2

VARIABLES
    \* ---- agent state ----
    current_database,   \* DBMAAgent._current_database
    \* ---- execute_with_healing: position, locals, return value ----
    h_pc,               \* "idle", "execute" (line 916), "heal" (line 951), or the return taken
    current_sql,        \* local current_sql
    attempt,            \* loop variable attempt
    result,             \* local result (the returned QueryResult once h_pc is a return)
    heal_log,           \* local heal_log (the returned list once h_pc is a return)
    corrected_sql,      \* local corrected_sql: what _heal_sql returned last
    engine_calls,       \* calls of mysql.execute_query made by the current call
    oracle_calls,       \* calls of _heal_sql made by the current call
    heal_oracle,        \* how the oracle call of the last _heal_sql ended
    \* ---- durable store (one partition) ----
    messages,           \* the partition's rows of dbma_messages in sequence_no order, each its sequence_no
    next_seq,           \* the store's sequence counter
    summary,            \* the partition's row of dbma_conversation_summary
    inserted,           \* the rows of dbma_messages the turns of a traced process inserted,
                        \* in insertion order: sequence_no, role, content, sql_query, metadata
    \* ---- update_summary_if_needed, one per _switch_database worker ----
    f_pc,               \* worker -> "idle", "loaded", "folding", "saving"
    f_existing,         \* worker -> local existing
    f_unsummarized,     \* worker -> local unsummarized
    f_summary_text,     \* worker -> local summary_text
    f_oracle,           \* worker -> how the oracle call of _summarize_messages ended
    \* ---- _chat_inner, one per _run_agent worker ----
    c_pc,               \* worker -> "idle", "llm" (context built, oracle call pending)
    context_block,      \* worker -> local context_block of the turn in progress
    llm_calls,          \* worker -> oracle calls the turn in progress has made
    c_intent,           \* worker -> local intent of the turn in progress
    turns,              \* chat turns started
    ls_active,          \* DBMAAgent._ls_active: whether chat turns are traced
    last_turn,          \* the trace of the chat turn that returned last: its
                        \* input, its AgentResponse and the oracle calls it made
    switches,           \* partition activations started
    \* ---- session registry ----
    process,            \* the run of the program: 1, or 2 after a restart
    pg_available,       \* whether the durable store can be reached
    pg_conn,            \* PersistenceManager._conn: "none", "open", "closed"
    sessions,           \* the thread_ids of the rows of dbma_sessions
    resolved,           \* the calls of the registry made so far, each with what it returned
    \* ---- refinement pipeline ----
    optimizer_enabled,  \* the module global OPTIMIZER_ENABLED
    refined,            \* the last call of _run_optimizer_pipeline: its argument, the
                        \* responses of its two sub-agents and what it returned
    \* ---- terminal UI: DBMAApp over the engine, the agent and the store ----
    engine_database,    \* MySQLManager._current_database: the engine's selected database
    app_thread_id,      \* DBMAApp._current_thread_id
    qe_thread_id,       \* QueryExecutor._current_thread_id
    app_current_db,     \* DBMAApp.current_db
    query_count,        \* DBMAApp.query_count
    query_history,      \* the rows of dbma_query_history in insertion order
    thread_messages,    \* the rows of dbma_messages of every partition in insertion
                        \* order, each its thread_id and role
    t_pc,               \* worker -> where its chat turn is between the store calls
                        \* that name a partition: "idle", "llm", "saving"
    t_thread_id         \* worker -> the thread id line 772 passed to _build_rolling_context

healVars == <<h_pc, current_sql, attempt, result, heal_log, corrected_sql,
              engine_calls, oracle_calls, heal_oracle>>
storeVars == <<messages, next_seq, summary, inserted>>
foldVars == <<f_pc, f_existing, f_unsummarized, f_summary_text, f_oracle, switches>>
chatVars == <<c_pc, context_block, llm_calls, c_intent, turns, ls_active, last_turn>>
memVars == <<storeVars, foldVars, chatVars>>
sessVars == <<process, pg_available, pg_conn, sessions, resolved>>
refineVars == <<optimizer_enabled, refined>>
appVars == <<app_thread_id, qe_thread_id, app_current_db, query_count, query_history,
             thread_messages, t_pc, t_thread_id>>
uiVars == <<engine_database, appVars>>
vars == <<current_database, healVars, memVars, sessVars, refineVars, uiVars>>

(***************************************************************************)
(* Texts.  A text is a sequence of one-character strings, so that          *)
(* str.strip() is computed and not assumed.                                *)
(***************************************************************************)
Whitespace == {" "}

RECURSIVE LStrip(_)
LStrip(s) == IF s # <<>> /\ Head(s) \in Whitespace THEN LStrip(Tail(s)) ELSE s

RECURSIVE RStrip(_)
RStrip(s) ==
    IF s # <<>> /\ s[Len(s)] \in Whitespace
    THEN RStrip(SubSeq(s, 1, Len(s) - 1))
    ELSE s

\* str.strip()
Strip(s) == RStrip(LStrip(s))

RECURSIVE RStripSemi(_)
\* str.rstrip(";")
RStripSemi(s) ==
    IF s # <<>> /\ s[Len(s)] = ";"
    THEN RStripSemi(SubSeq(s, 1, Len(s) - 1))
    ELSE s

\* Optional[str]: Python's None, or a text
None == [some |-> FALSE, text |-> <<>>]
Some(t) == [some |-> TRUE, text |-> t]

\* truthiness of an Optional[str]: None and "" are falsy
Truthy(o) == o.some /\ o.text # <<>>

\* sql handed to execute_with_healing by its caller
SqlInputs ==
    { <<"a">>, <<" ", "a">>, <<"a", " ">>, <<"a", ";">>, <<"b">>, <<>> }

\* what _extract_sql finds in the healer's answer: None (the answer holds no
\* SQL), or a stripped, non-empty text
HealerAnswers ==
    { None, Some(<<"a">>), Some(<<"b">>), Some(<<"a", ";">>), Some(<<"c">>) }

\* how the oracle call of _heal_sql ends: with an answer, or by raising
\* (the client's timeout elapsed, or another error)
HealerOutcomes == { "answered", "timeout", "error" }

\* str(e) of the MySQLError of a statement the engine gave up on after its
\* time limit
EngineTimeout == "Timeout"

\* str(e) of a MySQLError
EngineErrors == { "E1", "E2", EngineTimeout }

\* QueryResult.execution_ms
ExecMs == { 0, 7 }

NoDatabase == "None"
Databases == { "orders_db" }

(***************************************************************************)
(* Relational engine boundary: MySQLManager.execute_query.                 *)
(***************************************************************************)
EngineOutcomes == { "ok", "error", "disconnected" }

\* the QueryResult execute_query returns for `query` under an engine outcome
ExecuteQuery(query, outcome, err, ms) ==
    IF outcome = "disconnected"
    THEN [success |-> FALSE, query |-> query,
          error |-> "Not connected to MySQL. Reconnection failed.",
          execution_ms |-> 0]
    ELSE LET q == Strip(RStripSemi(Strip(query))) IN
         IF outcome = "ok"
         THEN [success |-> TRUE, query |-> q, error |-> "None", execution_ms |-> ms]
         ELSE [success |-> FALSE, query |-> q, error |-> err, execution_ms |-> ms]

\* the error text of the failure not passed on
ErrorMsg_Generic(res) == "Unknown error"

\* result.error or "Unknown error"
ErrorMsg(res) == IF res.error \in {"None", ""} THEN "Unknown error" ELSE res.error

NoResult == [success |-> FALSE, query |-> <<>>, error |-> "None", execution_ms |-> 0]

(***************************************************************************)
(* DBMAAgent.execute_with_healing.                                         *)
(***************************************************************************)
\* an entry logged as successful before its corrected query has run
HealAttempt_Optimistic(no, orig, err, corrected) ==
    [attempt_no |-> no, original_sql |-> orig, error_message |-> err,
     corrected_sql |-> corrected, success |-> TRUE, execution_ms |-> 0]

HealAttempt(no, orig, err, corrected) ==
    [attempt_no |-> no, original_sql |-> orig, error_message |-> err,
     corrected_sql |-> corrected, success |-> FALSE, execution_ms |-> 0]

\* the retry limit never tested
RetryLimitHit_Never(a) == FALSE

\* the retry limit tested one attempt late
RetryLimitHit_Late(a) == a = MAX_HEAL_ATTEMPTS + 1

\* the retry limit tested one attempt early
RetryLimitHit_Early(a) == a = MAX_HEAL_ATTEMPTS - 1

\* if attempt == MAX_HEAL_ATTEMPTS
RetryLimitHit(a) == a = MAX_HEAL_ATTEMPTS

\* for attempt in range(MAX_HEAL_ATTEMPTS + 1): is there a next iteration
LoopContinues(a) == a + 1 < MAX_HEAL_ATTEMPTS + 1

\* the comparison made without trimming
NoCorrection_Untrimmed(corrected, current) ==
    \/ ~Truthy(corrected)
    \/ corrected.text = current

\* if not corrected_sql or corrected_sql.strip() == current_sql.strip()
NoCorrection(corrected, current) ==
    \/ ~Truthy(corrected)
    \/ Strip(corrected.text) = Strip(current)

\* every entry of the log marked, not only the last
MarkHealed_All(log, res) ==
    [i \in 1 .. Len(log) |->
        [log[i] EXCEPT !.success = TRUE, !.execution_ms = res.execution_ms]]

\* heal_log[-1].success = True; heal_log[-1].execution_ms = result.execution_ms
MarkHealed(log, res) ==
    [log EXCEPT ![Len(log)].success = TRUE,
                ![Len(log)].execution_ms = res.execution_ms]

HealReturns == { "ret_nodb", "ret_success", "ret_exhausted", "ret_stopped", "ret_loop_end" }

\* DBMAAgent._heal_sql: the extracted SQL, or None when the oracle call raised
_heal_sql(outcome, extracted) == IF outcome = "answered" THEN extracted ELSE None

\* entry of execute_with_healing(sql): lines 905-911
HealCall(sql) ==
    /\ h_pc \in {"idle"} \cup HealReturns
    /\ engine_calls' = 0
    /\ oracle_calls' = 0
    /\ heal_oracle' = "none"
    /\ corrected_sql' = None
    /\ heal_log' = <<>>
    /\ attempt' = 0
    /\ IF current_database = NoDatabase
       THEN /\ result' = [success |-> FALSE, query |-> sql,
                          error |-> "No database selected", execution_ms |-> 0]
            /\ current_sql' = <<>>
            /\ h_pc' = "ret_nodb"
       ELSE /\ result' = NoResult
            /\ current_sql' = sql
            /\ h_pc' = "execute"
    /\ UNCHANGED <<current_database, memVars, sessVars, refineVars, uiVars>>

\* one engine execution and the branches on its result: lines 916-949
HealExecute(outcome, err, ms) ==
    /\ h_pc = "execute"
    /\ result' = ExecuteQuery(current_sql, outcome, err, ms)
    /\ engine_calls' = engine_calls + 1
    /\ IF result'.success
       THEN /\ heal_log' = IF attempt > 0 THEN MarkHealed(heal_log, result') ELSE heal_log
            /\ h_pc' = "ret_success"
       ELSE /\ heal_log' = heal_log
            /\ h_pc' = IF RetryLimitHit(attempt) THEN "ret_exhausted" ELSE "heal"
    /\ UNCHANGED <<current_sql, attempt, corrected_sql, oracle_calls, heal_oracle>>
    /\ UNCHANGED <<current_database, memVars, sessVars, refineVars, uiVars>>

\* one call of the healer and the branches on its answer: lines 951-979
HealCorrect(outcome, extracted) ==
    /\ h_pc = "heal"
    /\ corrected_sql' = _heal_sql(outcome, extracted)
    /\ heal_oracle' = outcome
    /\ oracle_calls' = oracle_calls + 1
    /\ IF NoCorrection(corrected_sql', current_sql)
       THEN /\ h_pc' = "ret_stopped"
            /\ UNCHANGED <<heal_log, current_sql, attempt>>
       ELSE /\ heal_log' = Append(heal_log,
                  HealAttempt(attempt + 1, current_sql, ErrorMsg(result),
                              corrected_sql'.text))
            /\ current_sql' = corrected_sql'.text
            /\ IF LoopContinues(attempt)
               THEN attempt' = attempt + 1 /\ h_pc' = "execute"
               ELSE attempt' = attempt /\ h_pc' = "ret_loop_end"
    /\ UNCHANGED <<result, engine_calls>>
    /\ UNCHANGED <<current_database, memVars, sessVars, refineVars, uiVars>>

(***************************************************************************)
(* Durable store boundary: PersistenceManager over dbma_messages and       *)
(* dbma_conversation_summary, for one partition (thread_id).  Every call   *)
(* catches its own exceptions: `ok` says whether the statement ran.        *)
(***************************************************************************)
\* message counts a partition may hold when the process starts
InitCounts == { 0, 39, 41, 85 }

\* the last n elements of a list: the slice [-n:], and the rows of
\* ORDER BY sequence_no DESC LIMIT n put back in ascending order
LastN(l, n) == IF Len(l) > n THEN SubSeq(l, Len(l) - n + 1, Len(l)) ELSE l

\* all but the last n elements of a list: the slice [:-n]
AllButLastN(l, n) == IF Len(l) > n THEN SubSeq(l, 1, Len(l) - n) ELSE <<>>

\* the sequence numbers of a list of messages
SeqNos(l) == { l[i] : i \in 1 .. Len(l) }

\* no row in dbma_conversation_summary (load_conversation_summary gives None)
NoSummary ==
    [exists |-> FALSE, summary_text |-> {}, summarized_up_to_seq |-> 0,
     message_count_summarized |-> 0, updated_at |-> 0]

\* PersistenceManager.load_conversation_summary
load_conversation_summary(ok) == IF ok THEN summary ELSE NoSummary

\* PersistenceManager.get_messages_after_seq
get_messages_after_seq(after_seq, ok) ==
    IF ok THEN SelectSeq(messages, LAMBDA m : m > after_seq) ELSE <<>>

\* PersistenceManager.get_recent_messages
get_recent_messages(n, ok) == IF ok THEN LastN(messages, n) ELSE <<>>

\* PersistenceManager.save_conversation_summary: the row after the upsert
save_conversation_summary(text, up_to_seq, count, ok) ==
    IF ok
    THEN [exists |-> TRUE, summary_text |-> text, summarized_up_to_seq |-> up_to_seq,
          message_count_summarized |-> count, updated_at |-> summary.updated_at + 1]
    ELSE summary

\* the sequence_no the store gives the next row of dbma_messages
AssignSeq == next_seq

\* PersistenceManager.save_message: the rows after the insert
save_message(rows, seq, ok) == IF ok THEN Append(rows, seq) ELSE rows

(***************************************************************************)
(* Session registry: PersistenceManager.generate_thread_id and             *)
(* get_or_create_session over dbma_sessions.                               *)
(***************************************************************************)
\* mysql_config.host and mysql_config.user
mysql_config == [host |-> <<"h">>, user |-> <<"u">>]

\* hosts, principals and database names a thread id is asked for
HostNames == { <<"h">>, <<"h", ":", ":", "1">> }

UserNames == { <<"u">>, <<"1", ":", ":", "u">> }

DatabaseNames == { <<"d">>, <<"e">> }

\* raw = f"{host}::{user}::{database}"
RawKey(host, user, database) ==
    host \o <<":", ":">> \o user \o <<":", ":">> \o database

\* hashlib.sha256(raw.encode()).hexdigest()[:32], taken as collision-free:
\* the digest of a text is the text under an injective tag
Sha256Hex32(raw) == <<"sha256">> \o raw

\* an identifier salted by the running process, as Python's built-in hash() is
generate_thread_id_Salted(host, user, database) ==
    <<"thread_">> \o <<ToString(process)>> \o RawKey(host, user, database)

\* PersistenceManager.generate_thread_id
generate_thread_id(host, user, database) ==
    <<"thread_">> \o Sha256Hex32(RawKey(host, user, database))

\* PersistenceManager.is_connected
is_connected == pg_conn = "open"

\* PersistenceManager.connect: _conn after the call (psycopg2.connect raises
\* before the assignment when the store cannot be reached)
connect == IF pg_available THEN "open" ELSE pg_conn

\* PersistenceManager.ensure_connected: _conn after the call
ensure_connected == IF is_connected THEN pg_conn ELSE connect

\* host or mysql_config.host
OrDefault(o, default) == IF Truthy(o) THEN o.text ELSE default

\* the upsert failing makes the call raise and return no identifier
get_or_create_session_Raising(database_name, host, user, stmt_ok) ==
    LET conn == ensure_connected
        thread_id == generate_thread_id(OrDefault(host, mysql_config.host),
                                        OrDefault(user, mysql_config.user),
                                        database_name)
        upserted == conn = "open" /\ pg_available /\ stmt_ok
    IN  [thread_id |-> IF upserted THEN thread_id ELSE <<>>,
         raised |-> ~upserted,
         upserted |-> upserted,
         conn |-> IF conn = "open" /\ ~pg_available THEN "closed" ELSE conn,
         rows |-> IF upserted THEN sessions \cup {thread_id} ELSE sessions]

\* PersistenceManager.get_or_create_session: what it returns and what it
\* leaves behind.  The upsert runs when the connection is open, the store is
\* reachable and the statement is accepted; otherwise the except block returns.
get_or_create_session(database_name, host, user, stmt_ok) ==
    LET conn == ensure_connected
        thread_id == generate_thread_id(OrDefault(host, mysql_config.host),
                                        OrDefault(user, mysql_config.user),
                                        database_name)
        upserted == conn = "open" /\ pg_available /\ stmt_ok
    IN  [thread_id |-> thread_id,
         raised |-> FALSE,
         upserted |-> upserted,
         conn |-> IF conn = "open" /\ ~pg_available THEN "closed" ELSE conn,
         rows |-> IF upserted THEN sessions \cup {thread_id} ELSE sessions]

\* one call of the registry and what it returned
Resolution(via, host, user, database, thread_id, raised, upserted) ==
    [via |-> via, host |-> host, user |-> user, database |-> database,
     thread_id |-> thread_id, raised |-> raised, upserted |-> upserted,
     process |-> process, store_up |-> pg_available]

\* a call of generate_thread_id(host, user, database)
GenerateThreadId(host, user, database) ==
    /\ Cardinality(resolved) < MaxCalls
    /\ resolved' = resolved \cup
           { Resolution("generate_thread_id", host, user, database,
                        generate_thread_id(host, user, database), FALSE, FALSE) }
    /\ UNCHANGED <<process, pg_available, pg_conn, sessions>>
    /\ UNCHANGED <<current_database, healVars, memVars, refineVars, uiVars>>

\* a call of get_or_create_session(database_name), as set_database_context
\* makes it (host and user left to their defaults)
GetOrCreateSession(database_name, stmt_ok) ==
    /\ Cardinality(resolved) < MaxCalls
    /\ LET r == get_or_create_session(database_name, None, None, stmt_ok)
       IN  /\ pg_conn' = r.conn
           /\ sessions' = r.rows
           /\ resolved' = resolved \cup
                  { Resolution("get_or_create_session", mysql_config.host,
                               mysql_config.user, database_name,
                               r.thread_id, r.raised, r.upserted) }
    /\ UNCHANGED <<process, pg_available>>
    /\ UNCHANGED <<current_database, healVars, memVars, refineVars, uiVars>>

\* the program is stopped and started again: a new PersistenceManager
Restart ==
    /\ process = 1
    /\ process' = 2
    /\ pg_conn' = "none"
    /\ UNCHANGED <<pg_available, sessions, resolved>>
    /\ UNCHANGED <<current_database, healVars, memVars, refineVars, uiVars>>

\* the durable store goes away, or comes back
StoreAvailability(up) ==
    /\ pg_available # up
    /\ pg_available' = up
    /\ UNCHANGED <<process, pg_conn, sessions, resolved>>
    /\ UNCHANGED <<current_database, healVars, memVars, refineVars, uiVars>>

(***************************************************************************)
(* Refinement pipeline: DBMAAgent._run_optimizer_pipeline and              *)
(* _infer_risk_level.                                                      *)
(***************************************************************************)
LowerLetters ==
    <<"a", "b", "c", "d", "e", "f", "g", "h", "i", "j", "k", "l", "m", "n", "o", "p", "q", "r", "s", "t", "u", "v", "w", "x", "y", "z">>

UpperLetters ==
    <<"A", "B", "C", "D", "E", "F", "G", "H", "I", "J", "K", "L", "M", "N", "O", "P", "Q", "R", "S", "T", "U", "V", "W", "X", "Y", "Z">>

\* str.upper() on the letters
UpperMap ==
    [ch \in { LowerLetters[i] : i \in 1 .. Len(LowerLetters) } |->
        UpperLetters[CHOOSE i \in 1 .. Len(LowerLetters) : LowerLetters[i] = ch]]

\* str.lower() on the letters
LowerMap ==
    [ch \in { UpperLetters[i] : i \in 1 .. Len(UpperLetters) } |->
        LowerLetters[CHOOSE i \in 1 .. Len(UpperLetters) : UpperLetters[i] = ch]]

\* one character of str.upper()
UpperChar(ch) == IF ch \in DOMAIN UpperMap THEN UpperMap[ch] ELSE ch

\* one character of str.lower()
LowerChar(ch) == IF ch \in DOMAIN LowerMap THEN LowerMap[ch] ELSE ch

\* str.upper()
Upper(s) == [i \in 1 .. Len(s) |-> UpperChar(s[i])]

\* str.lower()
Lower(s) == [i \in 1 .. Len(s) |-> LowerChar(s[i])]

RECURSIVE WordAt(_)
\* the characters of s up to its first whitespace
WordAt(s) ==
    IF s = <<>> \/ Head(s) \in Whitespace THEN <<>> ELSE <<Head(s)>> \o WordAt(Tail(s))

\* sql.strip().split()[0]
FirstWord(s) == WordAt(LStrip(s))

RiskLow == <<"L", "O", "W">>
RiskMedium == <<"M", "E", "D", "I", "U", "M">>
RiskHigh == <<"H", "I", "G", "H">>

\* ("LOW", "MEDIUM", "HIGH")
RiskLevels == { RiskLow, RiskMedium, RiskHigh }

\* if first in ("DELETE", "DROP", "TRUNCATE")
HighRiskVerbs == { <<"D", "E", "L", "E", "T", "E">>, <<"D", "R", "O", "P">>, <<"T", "R", "U", "N", "C", "A", "T", "E">> }

\* if first in ("UPDATE", "INSERT", "ALTER", "CREATE")
MediumRiskVerbs == { <<"U", "P", "D", "A", "T", "E">>, <<"I", "N", "S", "E", "R", "T">>, <<"A", "L", "T", "E", "R">>, <<"C", "R", "E", "A", "T", "E">> }

\* UPDATE rated as _is_destructive rates it
_infer_risk_level_UpdateHigh(sql) ==
    IF sql = <<>> THEN RiskLow
    ELSE LET first == Upper(FirstWord(sql))
         IN  IF first \in HighRiskVerbs \cup { <<"U", "P", "D", "A", "T", "E">> } THEN RiskHigh
             ELSE IF first \in MediumRiskVerbs THEN RiskMedium
             ELSE RiskLow

\* DBMAAgent._infer_risk_level, for the texts _extract_sql returns (stripped,
\* not empty) and for the empty text
_infer_risk_level(sql) ==
    IF sql = <<>> THEN RiskLow
    ELSE LET first == Upper(FirstWord(sql))
         IN  IF first \in HighRiskVerbs THEN RiskHigh
             ELSE IF first \in MediumRiskVerbs THEN RiskMedium
             ELSE RiskLow

\* the candidate queries handed to the pipeline: what _extract_sql found in
\* the writer's answer, a stripped text that is not empty
RawSqls ==
    { <<"D", "E", "L", "E", "T", "E", " ", "t">>, <<"d", "r", "o", "p", " ", "t">>,
      <<"T", "r", "u", "n", "c", "a", "t", "e", " ", "t">>, <<"I", "N", "S", "E", "R", "T", " ", "t">>,
      <<"u", "p", "d", "a", "t", "e", " ", "t">>, <<"A", "l", "t", "e", "r", " ", "t">>,
      <<"C", "R", "E", "A", "T", "E", " ", "t">>, <<"S", "E", "L", "E", "C", "T", " ", "t">>,
      <<"s", "e", "l", "e", "c", "t", " ", "t">>, <<"S", "E", "L", "E", "C", "T", " ", " ", "t">>,
      <<"D", "R", "O", "P", "S", " ", "t">> }

\* what _extract_tagged_line finds for RISK_LEVEL in the validator's answer:
\* None, or the rest of the line, stripped
RiskTags ==
    { None, Some(<<"L", "O", "W">>), Some(<<"h", "i", "g", "h">>), Some(<<"M", "e", "d", "i", "u", "m">>),
      Some(<<"H", "I", "G", "H", " ", "r", "i", "s", "k">>), Some(<<>>) }

\* the answer of a sub-agent: its oracle call raised, or it returned a text in
\* which _extract_sql finds sql and _extract_tagged_line finds risk
\* (RISK_LEVEL) and notes (OPTIMIZER_NOTES, VALIDATOR_NOTES)
SubAgentAnswer(raised, sql, risk, notes) ==
    [raised |-> raised, sql |-> sql, risk |-> risk, notes |-> notes]

\* an answer without a notes line
SubAgentResponse(raised, sql, risk) == SubAgentAnswer(raised, sql, risk, None)

SubAgentRaised == SubAgentResponse(TRUE, None, None)

\* the validator is not asked when the optimizer's call raised
NotInvoked == [raised |-> FALSE, sql |-> None, risk |-> Some(<<"-">>), notes |-> None]

OptimizerResponses ==
    { SubAgentRaised }
    \cup { SubAgentResponse(FALSE, sql, None) :
             sql \in { None, Some(<<"s", "e", "l", "e", "c", "t", " ", "t">>), Some(<<"S", "E", "L", "E", "C", "T", " ", " ", "t">>) } }
    \cup { SubAgentAnswer(FALSE, None, None, Some(<<"k", "e", "p", "t">>)) }

ValidatorResponses ==
    { SubAgentRaised }
    \cup { SubAgentResponse(FALSE, sql, risk) :
             sql \in { None, Some(<<"S", "E", "L", "E", "C", "T", " ", "t">>), Some(<<"D", "E", "L", "E", "T", "E", " ", "t">>) },
             risk \in RiskTags }
    \cup { SubAgentAnswer(FALSE, None, None, Some(<<"s", "a", "f", "e">>)),
           SubAgentAnswer(FALSE, Some(<<"S", "E", "L", "E", "C", "T", " ", "t">>), None, Some(<<>>)) }

\* the oracle calls of _run_optimizer_pipeline: the optimizer and, unless the
\* optimizer's call raised, the validator
OptimizerInvocations(first_ok) == IF first_ok THEN 2 ELSE 1

\* no OptimizerReport (Python's None)
NoReport ==
    [exists |-> FALSE, original_sql |-> <<>>, optimized_sql |-> <<>>,
     final_sql |-> <<>>, optimizer_notes |-> <<>>, validator_notes |-> <<>>,
     risk_level |-> <<>>, was_modified |-> FALSE]

\* the notes recorded for a stage whose answer has no notes line
DefaultOptimizerNotes == <<"N", "o", " ", "c", "h", "a", "n", "g", "e", "s", " ", "n", "e", "e", "d", "e", "d">>

DefaultValidatorNotes == <<"V", "a", "l", "i", "d", "a", "t", "e", "d", " ", "-", " ", "n", "o", " ", "i", "s", "s", "u", "e", "s", " ", "f", "o", "u", "n", "d">>

\* a missing extraction replaced by the empty text
ExtractedOr_Empty(found, fallback) == IF Truthy(found) THEN found.text ELSE <<>>

\* <extracted> or <fallback>: the extracted text unless it is None or empty
ExtractedOr(found, fallback) == IF Truthy(found) THEN found.text ELSE fallback

\* final_sql.strip().lower() != original_sql.strip().lower()
WasModified(final_sql, original_sql) ==
    Lower(Strip(final_sql)) # Lower(Strip(original_sql))

\* risk_level = risk_level.strip().upper(); inferred when not a level
NormalizeRisk(risk_level, final_sql) ==
    IF Upper(Strip(risk_level)) \in RiskLevels
    THEN Upper(Strip(risk_level))
    ELSE _infer_risk_level(final_sql)

\* DBMAAgent._run_optimizer_pipeline: the report it returns, or the exception
\* of the sub-agent whose oracle call raised, and the oracle calls made
_run_optimizer_pipeline(original_sql, optimizer, validator) ==
    LET optimized_sql == ExtractedOr(optimizer.sql, original_sql)
        final_sql == ExtractedOr(validator.sql, optimized_sql)
        risk_level ==
            IF Truthy(validator.risk) THEN validator.risk.text
            ELSE _infer_risk_level(final_sql)
    IN  IF optimizer.raised
        THEN [raised |-> TRUE, invocations |-> OptimizerInvocations(FALSE),
              sql_to_validate |-> None, report |-> NoReport]
        ELSE IF validator.raised
        THEN [raised |-> TRUE, invocations |-> OptimizerInvocations(TRUE),
              sql_to_validate |-> Some(optimized_sql), report |-> NoReport]
        ELSE [raised |-> FALSE, invocations |-> OptimizerInvocations(TRUE),
              sql_to_validate |-> Some(optimized_sql),
              report |-> [exists |-> TRUE,
                          original_sql |-> original_sql,
                          optimized_sql |-> optimized_sql,
                          final_sql |-> final_sql,
                          optimizer_notes |->
                              ExtractedOr(optimizer.notes, DefaultOptimizerNotes),
                          validator_notes |->
                              ExtractedOr(validator.notes, DefaultValidatorNotes),
                          risk_level |-> NormalizeRisk(risk_level, final_sql),
                          was_modified |-> WasModified(final_sql, original_sql)]]

\* no call of the pipeline yet
NoRefinement ==
    [original_sql |-> <<>>, optimizer |-> NotInvoked, validator |-> NotInvoked,
     sql_to_validate |-> None, raised |-> FALSE, invocations |-> 0, report |-> NoReport]

\* a call of _run_optimizer_pipeline(original_sql)
RunOptimizerPipeline(original_sql, optimizer, validator) ==
    /\ LET r == _run_optimizer_pipeline(original_sql, optimizer, validator)
       IN  refined' = [original_sql |-> original_sql,
                       optimizer |-> optimizer,
                       validator |-> IF optimizer.raised THEN NotInvoked ELSE validator,
                       sql_to_validate |-> r.sql_to_validate,
                       raised |-> r.raised,
                       invocations |-> r.invocations,
                       report |-> r.report]
    /\ UNCHANGED optimizer_enabled
    /\ UNCHANGED <<current_database, healVars, memVars, sessVars, uiVars>>

(***************************************************************************)
(* Rolling memory: DBMAAgent._build_rolling_context.                       *)
(* summary_text is modelled by the set of turns whose dialogue went into   *)
(* the summarizer prompts that produced it ({} is the empty text).         *)
(***************************************************************************)
\* the window left uncapped
ToKeep_NoCap(unsummarized) == unsummarized

\* to_keep = unsummarized[-N:] if len(unsummarized) > N else unsummarized
ToKeep(unsummarized) ==
    IF Len(unsummarized) > RECENT_MESSAGES_COUNT
    THEN LastN(unsummarized, RECENT_MESSAGES_COUNT)
    ELSE unsummarized

\* the context the try block builds: lines 1438-1453
ContextNormal(load_ok, msgs_ok) ==
    LET existing == load_conversation_summary(load_ok)
        unsummarized ==
            IF existing.exists
            THEN get_messages_after_seq(existing.summarized_up_to_seq, msgs_ok)
            ELSE get_recent_messages(RECENT_MESSAGES_COUNT, msgs_ok)
    IN  [summary |-> existing.summary_text,
         recent |-> ToKeep(unsummarized),
         last_seq |-> existing.summarized_up_to_seq]

\* the context the except block builds: lines 1455-1461
ContextFallback(msgs_ok) ==
    [summary |-> {},
     recent |-> get_recent_messages(RECENT_MESSAGES_COUNT, msgs_ok),
     last_seq |-> 0]

_build_rolling_context(raised, load_ok, msgs_ok) ==
    IF raised THEN ContextFallback(msgs_ok) ELSE ContextNormal(load_ok, msgs_ok)

NoContext == [summary |-> {}, recent |-> <<>>, last_seq |-> 0, seen |-> <<>>]

(***************************************************************************)
(* Rolling memory: DBMAAgent.update_summary_if_needed, run by              *)
(* set_database_context in a _switch_database worker thread.               *)
(***************************************************************************)
FoldWorkers == { 1, 2 }

OracleOutcomes == { "text", "empty", "raises" }

\* the slice taken one element too long
ToFold_OneMore(unsummarized) == AllButLastN(unsummarized, RECENT_MESSAGES_COUNT - 1)

\* to_fold = unsummarized[:-RECENT_MESSAGES_COUNT]
ToFold(unsummarized) == AllButLastN(unsummarized, RECENT_MESSAGES_COUNT)

\* if len(unsummarized) <= RECENT_MESSAGES_COUNT: return
NothingToFold(unsummarized) == Len(unsummarized) <= RECENT_MESSAGES_COUNT

\* DBMAAgent._summarize_messages: the text it returns
_summarize_messages(existing_summary, new_messages, outcome) ==
    IF outcome = "text"
    THEN existing_summary \cup SeqNos(new_messages)
    ELSE existing_summary

\* summarized_up_to_seq=to_fold[-1].sequence_no
NewUpToSeq(to_fold) == to_fold[Len(to_fold)]

\* the count of the previous summary not carried over
NewCount_NoCarry(existing, to_fold) == Len(to_fold)

\* message_count_summarized=(existing count or 0) + len(to_fold)
NewCount(existing, to_fold) == existing.message_count_summarized + Len(to_fold)

\* set_database_context up to the first store read of update_summary_if_needed:
\* lines 560-568 and 1472-1473.  The worker calls it once the engine has
\* accepted USE db (tui.py 510-517), and the USE of line 568 leaves the engine there.
SetDatabaseContext(w, db, load_ok) ==
    /\ f_pc[w] = "idle"
    /\ switches < MaxSwitches
    /\ switches' = switches + 1
    /\ current_database' = db
    /\ engine_database' = db
    /\ f_existing' = [f_existing EXCEPT ![w] = load_conversation_summary(load_ok)]
    /\ f_pc' = [f_pc EXCEPT ![w] = "loaded"]
    /\ UNCHANGED <<f_unsummarized, f_summary_text, f_oracle>>
    /\ UNCHANGED <<healVars, storeVars, chatVars, sessVars, refineVars, appVars>>

\* lines 1474-1480: read the unsummarized turns, return if there is nothing to fold
FoldRead(w, msgs_ok) ==
    /\ f_pc[w] = "loaded"
    /\ LET unsummarized ==
               get_messages_after_seq(f_existing[w].summarized_up_to_seq, msgs_ok)
       IN  IF NothingToFold(unsummarized)
           THEN /\ f_pc' = [f_pc EXCEPT ![w] = "idle"]
                /\ f_existing' = [f_existing EXCEPT ![w] = NoSummary]
                /\ UNCHANGED f_unsummarized
           ELSE /\ f_pc' = [f_pc EXCEPT ![w] = "folding"]
                /\ f_unsummarized' = [f_unsummarized EXCEPT ![w] = unsummarized]
                /\ UNCHANGED f_existing
    /\ UNCHANGED <<switches, f_summary_text, f_oracle>>
    /\ UNCHANGED <<current_database, healVars, storeVars, chatVars, sessVars, refineVars, uiVars>>

\* lines 1481-1484: the oracle call of _summarize_messages
FoldSummarize(w, outcome) ==
    /\ f_pc[w] = "folding"
    /\ f_summary_text' = [f_summary_text EXCEPT ![w] =
           _summarize_messages(f_existing[w].summary_text,
                               ToFold(f_unsummarized[w]), outcome)]
    /\ f_oracle' = [f_oracle EXCEPT ![w] = outcome]
    /\ f_pc' = [f_pc EXCEPT ![w] = "saving"]
    /\ UNCHANGED <<switches, f_existing, f_unsummarized>>
    /\ UNCHANGED <<current_database, healVars, storeVars, chatVars, sessVars, refineVars, uiVars>>

\* lines 1485-1493: persist the summary
FoldSave(w, save_ok) ==
    /\ f_pc[w] = "saving"
    /\ summary' = save_conversation_summary(
                      f_summary_text[w],
                      NewUpToSeq(ToFold(f_unsummarized[w])),
                      NewCount(f_existing[w], ToFold(f_unsummarized[w])),
                      save_ok)
    /\ f_pc' = [f_pc EXCEPT ![w] = "idle"]
    /\ f_existing' = [f_existing EXCEPT ![w] = NoSummary]
    /\ f_unsummarized' = [f_unsummarized EXCEPT ![w] = <<>>]
    /\ f_summary_text' = [f_summary_text EXCEPT ![w] = {}]
    /\ f_oracle' = [f_oracle EXCEPT ![w] = "none"]
    /\ UNCHANGED <<switches, messages, next_seq, inserted>>
    /\ UNCHANGED <<current_database, healVars, chatVars, sessVars, refineVars, uiVars>>

(***************************************************************************)
(* Turn orchestrator: DBMAAgent._chat_inner, as far as it reads and        *)
(* writes the partition's memory.                                          *)
(***************************************************************************)
\* a row of dbma_messages as save_message inserts it
MessageRow(seq, role, content, sql_query, intent) ==
    [sequence_no |-> seq, role |-> role, content |-> content,
     sql_query |-> sql_query, intent |-> intent]

\* the two rows of a turn inserted the response first
InteractionRows_ResponseFirst(response, seq1, seq2, ok1, ok2) ==
    (IF ok1
     THEN << MessageRow(seq1, "assistant", response.natural_text,
                        response.sql_query, response.intent) >>
     ELSE <<>>)
    \o (IF ok2
        THEN << MessageRow(seq2, "human", response.utterance, None, "none") >>
        ELSE <<>>)

\* the rows the two save_message calls of _save_interaction insert: the
\* utterance (role human, no query, empty metadata), then the response (role
\* assistant, response.sql_query, metadata intent)
InteractionRows(response, seq1, seq2, ok1, ok2) ==
    (IF ok1
     THEN << MessageRow(seq1, "human", response.utterance, None, "none") >>
     ELSE <<>>)
    \o (IF ok2
        THEN << MessageRow(seq2, "assistant", response.natural_text,
                           response.sql_query, response.intent) >>
        ELSE <<>>)

\* the columns of the inserted rows are followed for the turns of a traced
\* process, as last_turn is; elsewhere messages alone stands for the rows
Logged(rows) == IF ls_active THEN rows ELSE inserted

\* DBMAAgent._save_interaction: two save_message calls, human then assistant
SaveInteraction(response, ok1, ok2) ==
    LET rows1 == save_message(messages, AssignSeq, ok1)
        seq2 == IF ok1 THEN AssignSeq + 1 ELSE AssignSeq
        rows2 == save_message(rows1, seq2, ok2)
    IN  /\ messages' = rows2
        /\ next_seq' = IF ok2 THEN seq2 + 1 ELSE seq2
        /\ inserted' = Logged(inserted \o InteractionRows(response, AssignSeq, seq2, ok1, ok2))

\* the threads of _run_agent that may run a chat turn at the same time
ChatWorkers == { 1, 2 }

\* OPTIMIZER_ENABLED
OPTIMIZER_ENABLED == FALSE

\* the databases the engine has, as SHOW DATABASES lists them
AvailableDatabases == << "orders_db" >>

\* MySQLManager.list_databases: [] when the statement fails
list_databases(ok) == IF ok THEN AvailableDatabases ELSE <<>>

\* how the oracle call of _invoke_llm ends
LlmOutcomes == { "text", "raises" }

\* str(e) of the exception the oracle client raised
LlmErrors == { "Timeout", "" }

\* the intents _handle_quick_intents answers itself
QuickIntents == { "help", "show_databases" }

\* the utterances of the chat turns: their category (classify_intent) and no
\* word captured by the USE pattern
ChatUtterance(intent) == [intent |-> intent, use_match |-> None]

\* the intents of the utterances that need the oracle
ChatIntents == { "select_query", "general_question" }

\* _optimizer_intents
OptimizerIntents ==
    { "select_query", "insert_data", "update_data", "delete_data", "create_table" }

\* what _extract_sql finds in the oracle's answer of a chat turn
ChatRawSqls == { None, Some(<<"S", "E", "L", "E", "C", "T", " ", "t">>), Some(<<"D", "E", "L", "E", "T", "E", " ", "t">>) }

\* what _extract_sql finds in the oracle's answer of a turn that may be refined
RefineRawSqls == { None, Some(<<"S", "E", "L", "E", "C", "T", " ", "t">>), Some(<<"u", "p", "d", "a", "t", "e", " ", "t">>) }

\* the answers of the two sub-agents in the chat turns of the model
ChatOptimizerResponses ==
    { SubAgentRaised, SubAgentResponse(FALSE, None, None),
      SubAgentResponse(FALSE, Some(<<"s", "e", "l", "e", "c", "t", " ", "t">>), None) }

ChatValidatorResponses ==
    { SubAgentRaised, SubAgentResponse(FALSE, None, None),
      SubAgentResponse(FALSE, Some(<<"D", "E", "L", "E", "T", "E", " ", "t">>), Some(<<"h", "i", "g", "h">>)) }

\* the oracle asked a second time when the first call raised
_invoke_llm_Retry(outcome, err) ==
    [raised |-> outcome = "raises", error |-> err,
     invocations |-> IF outcome = "raises" THEN 2 ELSE 1]

\* DBMAAgent._invoke_llm: one self._llm.invoke; its exception is re-raised
_invoke_llm(outcome, err) ==
    [raised |-> outcome = "raises", error |-> err, invocations |-> 1]

\* if raw_sql and OPTIMIZER_ENABLED and intent in _optimizer_intents
RunsOptimizer(raw_sql, intent) ==
    Truthy(raw_sql) /\ optimizer_enabled /\ intent \in OptimizerIntents

\* the partition test always passing
NoPartition_Never == FALSE

\* if not self._current_thread_id (set together with _current_database by
\* set_database_context)
NoPartition == current_database = NoDatabase

\* the verbs _is_destructive looks for
DestructiveVerbs == { <<"D", "E", "L", "E", "T", "E">>, <<"D", "R", "O", "P">>, <<"T", "R", "U", "N", "C", "A", "T", "E">>, <<"U", "P", "D", "A", "T", "E">> }

\* the confirmation test made on the candidate of the oracle
RequiresConfirmation_OnRaw(final_sql, raw_sql) ==
    IF ~Truthy(raw_sql) THEN FALSE
    ELSE Upper(FirstWord(raw_sql.text)) \in DestructiveVerbs

\* DBMAAgent._is_destructive
_is_destructive(sql) ==
    IF ~Truthy(sql) THEN FALSE
    ELSE Upper(FirstWord(sql.text)) \in DestructiveVerbs

\* requires_confirmation of the oracle-path response
RequiresConfirmation(final_sql, raw_sql) == _is_destructive(final_sql)

\* unattended execution granted to every query
AutoExecute_Always(intent) == TRUE

\* auto_execute = intent in (AgentIntent.SHOW_DATABASES, AgentIntent.SHOW_TABLES)
AutoExecute(intent) == intent \in { "show_databases", "show_tables" }

\* the character that quotes an identifier of the engine (the grave accent,
\* written as an apostrophe here)
Backquote == "'"

\* the name of a database as a text
DbText(db) ==
    IF db = "orders_db" THEN <<"o", "r", "d", "e", "r", "s", "_", "d", "b">>
    ELSE IF db = "sales_db" THEN <<"s", "a", "l", "e", "s", "_", "d", "b">>
    ELSE <<>>

\* what an utterance is to the dispatch of a turn: the category
\* classify_intent gives it and the word the USE pattern of
\* _handle_quick_intents captures in it (None when the pattern does not match)
Utterance(intent, use_match) == [intent |-> intent, use_match |-> use_match]

Utterances ==
    { Utterance("help", None), Utterance("show_databases", None),
      Utterance("show_tables", None),
      Utterance("switch_database", Some(<<"o", "r", "d", "e", "r", "s", "_", "d", "b">>)),
      Utterance("switch_database", Some(<<"T", "h", "e">>)),
      Utterance("select_query", None), Utterance("general_question", None),
      Utterance("general_question", Some(<<"s", "l", "e", "e", "p">>)) }

\* reserved = {"database", "db", "table", "to", "the", "a", "an"}
ReservedWords ==
    { <<"d", "a", "t", "a", "b", "a", "s", "e">>, <<"d", "b">>, <<"t", "a", "b", "l", "e">>, <<"t", "o">>, <<"t", "h", "e">>, <<"a">>, <<"a", "n">> }

\* no chat turn has been traced yet
NoTurn ==
    [utterance |-> "none", ret |-> "none", natural_text |-> "", listed |-> <<>>,
     error |-> "None", llm_calls |-> 0, raw_sql |-> None, sql_query |-> None,
     intent |-> "unknown", optimizer_report |-> NoReport,
     category |-> "none", auto_execute |-> FALSE, requires_confirmation |-> TRUE]

\* the response of _handle_quick_intents: SHOW DATABASES carries its query,
\* HELP carries none
QuickTurn(intent) ==
    [utterance |-> "quick", ret |-> "quick", natural_text |-> "quick",
     listed |-> <<>>, error |-> "None", llm_calls |-> 0, raw_sql |-> None,
     sql_query |-> IF intent = "show_databases"
                   THEN Some(<<"S", "H", "O", "W", " ", "D", "A", "T", "A", "B", "A", "S", "E", "S">>)
                   ELSE None,
     intent |-> intent, optimizer_report |-> NoReport,
     category |-> intent, auto_execute |-> intent = "show_databases",
     requires_confirmation |-> FALSE]

\* the response of lines 743-755: db_list is ", ".join(available_dbs), or
\* "none found"
GuidanceTurn(available_dbs) ==
    [utterance |-> "other", ret |-> "guidance",
     natural_text |-> "Please select a database first!",
     listed |-> IF available_dbs # <<>> THEN available_dbs ELSE << "none found" >>,
     error |-> "No database context", llm_calls |-> 0, raw_sql |-> None,
     sql_query |-> None, intent |-> "unknown", optimizer_report |-> NoReport,
     category |-> "unknown", auto_execute |-> FALSE, requires_confirmation |-> TRUE]

\* the response of lines 809-819
LlmErrorTurn(err, calls, intent) ==
    [utterance |-> "other", ret |-> "llm_error",
     natural_text |-> "LLM Error: Make sure Ollama is running",
     listed |-> <<>>, error |-> err, llm_calls |-> calls, raw_sql |-> None,
     sql_query |-> None, intent |-> intent, optimizer_report |-> NoReport,
     category |-> intent, auto_execute |-> FALSE, requires_confirmation |-> TRUE]

\* natural_text of a response: the cleaned answer, with the optimizer's
\* summary appended when there is a report (lines 844-856)
NaturalText(report) ==
    IF ~report.exists THEN "answer"
    ELSE IF report.was_modified THEN "answer + Optimizer Pipeline Report"
    ELSE "answer + Optimizer: Query verified"

\* the response of lines 864-871
ResponseTurn(calls, intent, raw_sql, final_sql, report) ==
    [utterance |-> "other", ret |-> "response", natural_text |-> NaturalText(report),
     listed |-> <<>>, error |-> "None", llm_calls |-> calls, raw_sql |-> raw_sql,
     sql_query |-> final_sql, intent |-> intent, optimizer_report |-> report,
     category |-> intent, auto_execute |-> AutoExecute(intent),
     requires_confirmation |-> RequiresConfirmation(final_sql, raw_sql)]

\* an exception leaving chat()
ExceptionTurn ==
    [utterance |-> "other", ret |-> "exception", natural_text |-> "",
     listed |-> <<>>, error |-> "exception", llm_calls |-> 0, raw_sql |-> None,
     sql_query |-> None, intent |-> "unknown", optimizer_report |-> NoReport,
     category |-> "unknown", auto_execute |-> FALSE, requires_confirmation |-> TRUE]

\* a failed insert raised out of the turn
ReturnAfterSave_Raising(response, ok1, ok2) ==
    IF ok1 /\ ok2 THEN response ELSE ExceptionTurn

\* self._save_interaction(user_input, response); return response: the
\* response built before the save is returned whatever the two inserts did
\* (save_message and _save_interaction catch every exception)
ReturnAfterSave(response, ok1, ok2) == response

\* a failed refinement turned into a response without a query
FallbackSql_Dropped(raw_sql, refine, r) ==
    IF refine /\ ~r.raised THEN Some(r.report.final_sql) ELSE None

\* final_sql of the turn: optimizer_report.final_sql when the pipeline ran
\* and returned, raw_sql otherwise (lines 837-859)
FallbackSql(raw_sql, refine, r) ==
    IF refine /\ ~r.raised THEN Some(r.report.final_sql) ELSE raw_sql

\* the response of _handle_quick_intents to SHOW TABLES: the query on the
\* current database, or the list of databases when none is selected
ShowTablesTurn(available_dbs) ==
    IF current_database = NoDatabase
    THEN [utterance |-> "quick", ret |-> "quick",
          natural_text |-> "Please select a database first to show its tables.",
          listed |-> IF available_dbs # <<>> THEN available_dbs ELSE << "none" >>,
          error |-> "None", llm_calls |-> 0, raw_sql |-> None, sql_query |-> None,
          intent |-> "show_tables", optimizer_report |-> NoReport,
          category |-> "show_tables", auto_execute |-> FALSE,
          requires_confirmation |-> FALSE]
    ELSE [utterance |-> "quick", ret |-> "quick", natural_text |-> "quick",
          listed |-> <<>>, error |-> "None", llm_calls |-> 0, raw_sql |-> None,
          sql_query |-> Some(<<"S", "H", "O", "W", " ", "T", "A", "B", "L", "E", "S", " ", "F", "R", "O", "M", " ", Backquote>> \o DbText(current_database) \o << Backquote >>),
          intent |-> "show_tables", optimizer_report |-> NoReport,
          category |-> "show_tables", auto_execute |-> TRUE,
          requires_confirmation |-> FALSE]

\* the response of _handle_quick_intents to an utterance in which the USE
\* pattern captures db_name
SwitchTurn(db_name) ==
    [utterance |-> "quick", ret |-> "quick", natural_text |-> "quick",
     listed |-> <<>>, error |-> "None", llm_calls |-> 0, raw_sql |-> None,
     sql_query |-> Some(<<"U", "S", "E", " ", Backquote>> \o db_name \o << Backquote >>),
     intent |-> "switch_database", optimizer_report |-> NoReport,
     category |-> "switch_database", auto_execute |-> TRUE,
     requires_confirmation |-> FALSE]

\* _handle_quick_intents returned None
NoQuickResponse == [NoTurn EXCEPT !.ret = "None"]

\* DBMAAgent._handle_quick_intents: the response to an utterance that needs no
\* oracle, or None
_handle_quick_intents(u, list_ok) ==
    IF u.intent = "show_databases" THEN QuickTurn("show_databases")
    ELSE IF u.intent = "show_tables" THEN ShowTablesTurn(list_databases(list_ok))
    ELSE IF u.intent = "help" THEN QuickTurn("help")
    ELSE IF u.use_match.some /\ Lower(u.use_match.text) \notin ReservedWords
    THEN [SwitchTurn(u.use_match.text) EXCEPT !.category = u.intent]
    ELSE NoQuickResponse

\* chat(): the run of the turn as update_run records it when tracing is
\* active (lines 708-723)
Traced(run) == IF ls_active THEN run ELSE last_turn

\* a turn answered by _handle_quick_intents: lines 732-740
ChatQuick(w, u, list_ok, ok1, ok2) ==
    /\ c_pc[w] = "idle"
    /\ turns < MaxTurns
    /\ _handle_quick_intents(u, list_ok).ret # "None"
    /\ turns' = turns + 1
    /\ IF NoPartition
       THEN UNCHANGED <<messages, next_seq, inserted>>
       ELSE SaveInteraction(_handle_quick_intents(u, list_ok), ok1, ok2)
    /\ last_turn' = Traced(ReturnAfterSave(_handle_quick_intents(u, list_ok),
                                           NoPartition \/ ok1, NoPartition \/ ok2))
    /\ UNCHANGED <<summary, c_pc, context_block, llm_calls, c_intent, ls_active>>
    /\ UNCHANGED <<current_database, healVars, foldVars, sessVars, refineVars, uiVars>>

\* a turn that needs the oracle while no partition is active: lines 742-755
ChatGuidance(w, u, list_ok) ==
    /\ c_pc[w] = "idle"
    /\ turns < MaxTurns
    /\ _handle_quick_intents(u, list_ok).ret = "None"
    /\ NoPartition
    /\ turns' = turns + 1
    /\ last_turn' = Traced([GuidanceTurn(list_databases(list_ok))
                               EXCEPT !.category = u.intent])
    /\ UNCHANGED <<c_pc, context_block, llm_calls, c_intent, ls_active>>
    /\ UNCHANGED <<current_database, healVars, storeVars, foldVars, sessVars, refineVars, uiVars>>

\* the context assembly folding the old turns itself, oracle call included
ChatBuild_Folding(w, u, raised, load_ok, msgs_ok) ==
    /\ c_pc[w] = "idle"
    /\ turns < MaxTurns
    /\ _handle_quick_intents(u, TRUE).ret = "None"
    /\ ~NoPartition
    /\ c_intent' = [c_intent EXCEPT ![w] = u.intent]
    /\ turns' = turns + 1
    /\ LET ctx == _build_rolling_context(raised, load_ok, msgs_ok)
           unsummarized == get_messages_after_seq(summary.summarized_up_to_seq, TRUE)
       IN  /\ context_block' = [context_block EXCEPT ![w] =
                  [summary |-> ctx.summary, recent |-> ctx.recent,
                   last_seq |-> ctx.last_seq, seen |-> messages]]
           /\ IF NothingToFold(unsummarized)
              THEN UNCHANGED <<summary, llm_calls>>
              ELSE /\ llm_calls' = [llm_calls EXCEPT ![w] = 1]
                   /\ summary' = save_conversation_summary(
                          _summarize_messages(summary.summary_text,
                                              ToFold(unsummarized), "text"),
                          NewUpToSeq(ToFold(unsummarized)),
                          NewCount(summary, ToFold(unsummarized)), TRUE)
    /\ c_pc' = [c_pc EXCEPT ![w] = "llm"]
    /\ UNCHANGED <<messages, next_seq, inserted, ls_active, last_turn>>
    /\ UNCHANGED <<current_database, healVars, foldVars, sessVars, refineVars, uiVars>>

\* a turn that needs the oracle, up to the oracle call: lines 742-805
ChatBuild(w, u, raised, load_ok, msgs_ok) ==
    /\ c_pc[w] = "idle"
    /\ turns < MaxTurns
    /\ _handle_quick_intents(u, TRUE).ret = "None"
    /\ ~NoPartition
    /\ c_intent' = [c_intent EXCEPT ![w] = u.intent]
    /\ turns' = turns + 1
    /\ LET ctx == _build_rolling_context(raised, load_ok, msgs_ok)
       IN  context_block' = [context_block EXCEPT ![w] =
               [summary |-> ctx.summary, recent |-> ctx.recent,
                last_seq |-> ctx.last_seq, seen |-> messages]]
    /\ c_pc' = [c_pc EXCEPT ![w] = "llm"]
    /\ UNCHANGED <<ls_active, last_turn, llm_calls>>
    /\ UNCHANGED <<current_database, healVars, storeVars, foldVars, sessVars, refineVars, uiVars>>

\* the turn folding the old turns once its own are saved
ChatRespond_Folding(w, outcome, err, raw_sql, intent, optimizer, validator, ok1, ok2) ==
    LET llm == _invoke_llm(outcome, err)
        unsummarized == get_messages_after_seq(summary.summarized_up_to_seq, TRUE)
        response == ResponseTurn(llm.invocations, intent, raw_sql, raw_sql, NoReport)
    IN  /\ c_pc[w] = "llm"
        /\ intent = c_intent[w]
        /\ c_intent' = [c_intent EXCEPT ![w] = "none"]
        /\ IF llm.raised
           THEN /\ last_turn' = Traced(LlmErrorTurn(llm.error, llm.invocations, intent))
                /\ UNCHANGED <<messages, next_seq, inserted, summary>>
           ELSE /\ last_turn' = Traced(response)
                /\ SaveInteraction(response, ok1, ok2)
                /\ IF NothingToFold(unsummarized)
                   THEN UNCHANGED summary
                   ELSE summary' = save_conversation_summary(
                            _summarize_messages(summary.summary_text,
                                                ToFold(unsummarized), "text"),
                            NewUpToSeq(ToFold(unsummarized)),
                            NewCount(summary, ToFold(unsummarized)), TRUE)
        /\ c_pc' = [c_pc EXCEPT ![w] = "idle"]
        /\ context_block' = [context_block EXCEPT ![w] = NoContext]
        /\ UNCHANGED <<turns, llm_calls, ls_active>>
        /\ UNCHANGED <<current_database, healVars, foldVars, sessVars, refineVars, uiVars>>

\* the utterance saved whatever the oracle call did
SavedAfterOracle_Always(raised) == TRUE

\* the return of lines 811-819 comes before _save_interaction: a turn is saved
\* only when its oracle call returned
SavedAfterOracle(raised) == ~raised

\* the oracle call of the turn and what follows it: lines 807-874
ChatRespond(w, outcome, err, raw_sql, intent, optimizer, validator, ok1, ok2) ==
    LET llm == _invoke_llm(outcome, err)
        calls == llm_calls[w] + llm.invocations
        refine == ~llm.raised /\ RunsOptimizer(raw_sql, intent)
        r == _run_optimizer_pipeline(raw_sql.text, optimizer, validator)
        report == IF refine /\ ~r.raised THEN r.report ELSE NoReport
        response == ResponseTurn(IF refine THEN calls + r.invocations ELSE calls,
                                 intent, raw_sql,
                                 FallbackSql(raw_sql, refine, r), report)
    IN  /\ c_pc[w] = "llm"
        /\ intent = c_intent[w]
        /\ c_intent' = [c_intent EXCEPT ![w] = "none"]
        /\ last_turn' = Traced(IF llm.raised
                               THEN LlmErrorTurn(llm.error, calls, intent)
                               ELSE ReturnAfterSave(response, ok1, ok2))
        /\ IF SavedAfterOracle(llm.raised)
           THEN SaveInteraction(IF llm.raised
                                THEN LlmErrorTurn(llm.error, calls, intent)
                                ELSE response, ok1, ok2)
           ELSE UNCHANGED <<messages, next_seq, inserted>>
        /\ refined' = IF refine
                      THEN [original_sql |-> raw_sql.text,
                            optimizer |-> optimizer,
                            validator |-> IF optimizer.raised THEN NotInvoked
                                          ELSE validator,
                            sql_to_validate |-> r.sql_to_validate,
                            raised |-> r.raised,
                            invocations |-> r.invocations,
                            report |-> r.report]
                      ELSE refined
        /\ c_pc' = [c_pc EXCEPT ![w] = "idle"]
        /\ context_block' = [context_block EXCEPT ![w] = NoContext]
        /\ llm_calls' = [llm_calls EXCEPT ![w] = 0]
        /\ UNCHANGED <<summary, turns, ls_active, optimizer_enabled>>
        /\ UNCHANGED <<current_database, healVars, foldVars, sessVars, uiVars>>

(***************************************************************************)
(* Specifications.                                                         *)
(***************************************************************************)
(***************************************************************************)
(* Slash commands of the terminal UI: DBMAApp._handle_slash_command.       *)
(***************************************************************************)

\* PersistenceManager.clear_thread: the rows of dbma_messages of the partition
\* after its first DELETE; the two other statements delete from
\* dbma_checkpoints and dbma_schema_cache, none names
\* dbma_conversation_summary
clear_thread(ok) == IF ok THEN <<>> ELSE messages

\* /clear: clear_thread on the active partition, its return value unused
ClearThread(ok) ==
    /\ ~NoPartition
    /\ messages' = clear_thread(ok)
    /\ UNCHANGED <<next_seq, summary, inserted>>
    /\ UNCHANGED <<current_database, healVars, foldVars, chatVars, sessVars, refineVars, uiVars>>

(***************************************************************************)
(* Terminal UI: DBMAApp._switch_database, _execute_sql and the store calls *)
(* of a chat turn that name a partition, over two target databases.        *)
(***************************************************************************)
\* the databases the user switches between
TargetDatabases == { "orders_db", "sales_db" }

\* the thread id get_or_create_session(db) returns
ThreadId(db) == generate_thread_id(mysql_config.host, mysql_config.user, DbText(db))

\* DBMAAgent._current_thread_id, assigned with _current_database (lines 561-565)
CurrentThreadId == IF NoPartition THEN None ELSE Some(ThreadId(current_database))

\* the statements typed into the query input: the query type
\* _detect_query_type gives them and the database a USE names
UiQueries ==
    { [query_type |-> "SELECT", db |-> NoDatabase] }
    \cup { [query_type |-> "USE", db |-> db] : db \in TargetDatabases }

\* MySQLManager.execute_query: the engine's selected database after the call
EngineDatabaseAfter(sql, success) ==
    IF sql.query_type = "USE" /\ success THEN sql.db ELSE engine_database

\* one row of dbma_query_history
AuditRow(thread_id, sql, success) ==
    [thread_id |-> thread_id, sql_query |-> sql, success |-> success]

\* PersistenceManager.save_query_history: the rows after the insert
save_query_history(rows, thread_id, sql, success, ok) ==
    IF ok THEN Append(rows, AuditRow(thread_id, sql, success)) ELSE rows

\* DBMAApp._switch_database followed by _switch_to_database_context, for a
\* partition update_summary_if_needed finds nothing to fold in
SwitchDatabase(db, use_ok) ==
    /\ switches < MaxSwitches
    /\ switches' = switches + 1
    /\ IF use_ok
       THEN /\ engine_database' = db
            /\ current_database' = db
            /\ app_thread_id' = Some(ThreadId(db))
            /\ qe_thread_id' = Some(ThreadId(db))
            /\ app_current_db' = db
       ELSE UNCHANGED <<engine_database, current_database, app_thread_id,
                        qe_thread_id, app_current_db>>
    /\ UNCHANGED <<query_count, query_history, thread_messages, t_pc, t_thread_id>>
    /\ UNCHANGED <<f_pc, f_existing, f_unsummarized, f_summary_text, f_oracle>>
    /\ UNCHANGED <<healVars, storeVars, chatVars, sessVars, refineVars>>

\* DBMAApp._execute_sql over QueryExecutor.execute_and_format
ExecuteSql(sql, success, ok1, ok2) ==
    /\ query_count < MaxCalls
    /\ query_count' = query_count + 1
    /\ engine_database' = EngineDatabaseAfter(sql, success)
    /\ LET logged ==
               IF Truthy(qe_thread_id)
               THEN save_query_history(query_history, qe_thread_id, sql, success, ok1)
               ELSE query_history
       IN  query_history' =
               IF Truthy(app_thread_id)
               THEN save_query_history(logged, app_thread_id, sql, success, ok2)
               ELSE logged
    /\ app_current_db' =
           IF sql.query_type = "USE" /\ success THEN sql.db ELSE app_current_db
    /\ UNCHANGED <<app_thread_id, qe_thread_id, thread_messages, t_pc, t_thread_id>>
    /\ UNCHANGED <<current_database, healVars, memVars, sessVars, refineVars>>

\* one row of dbma_messages as far as its partition goes
ThreadRow(thread_id, role) == [thread_id |-> thread_id, role |-> role]

\* thread_id=self._current_thread_id, read at each save_message call
SaveThreadId(w) == CurrentThreadId

\* _chat_inner line 772: the context of the turn is read from the active partition
TurnBuild(w) ==
    /\ t_pc[w] = "idle"
    /\ turns < MaxTurns
    /\ ~NoPartition
    /\ turns' = turns + 1
    /\ t_thread_id' = [t_thread_id EXCEPT ![w] = CurrentThreadId]
    /\ t_pc' = [t_pc EXCEPT ![w] = "llm"]
    /\ UNCHANGED <<engine_database, app_thread_id, qe_thread_id, app_current_db,
                   query_count, query_history, thread_messages>>
    /\ UNCHANGED <<c_pc, context_block, llm_calls, c_intent, ls_active, last_turn>>
    /\ UNCHANGED <<current_database, healVars, storeVars, foldVars, sessVars, refineVars>>

\* _save_interaction lines 1719-1727: the first save_message
TurnSaveHuman(w, ok) ==
    /\ t_pc[w] = "llm"
    /\ thread_messages' =
           IF ok THEN Append(thread_messages, ThreadRow(SaveThreadId(w), "human"))
           ELSE thread_messages
    /\ t_pc' = [t_pc EXCEPT ![w] = "saving"]
    /\ UNCHANGED <<engine_database, app_thread_id, qe_thread_id, app_current_db,
                   query_count, query_history, t_thread_id>>
    /\ UNCHANGED <<current_database, healVars, memVars, sessVars, refineVars>>

\* _save_interaction lines 1728-1734: the second save_message
TurnSaveAssistant(w, ok) ==
    /\ t_pc[w] = "saving"
    /\ thread_messages' =
           IF ok THEN Append(thread_messages, ThreadRow(SaveThreadId(w), "assistant"))
           ELSE thread_messages
    /\ t_pc' = [t_pc EXCEPT ![w] = "idle"]
    /\ t_thread_id' = [t_thread_id EXCEPT ![w] = None]
    /\ UNCHANGED <<engine_database, app_thread_id, qe_thread_id, app_current_db,
                   query_count, query_history>>
    /\ UNCHANGED <<current_database, healVars, memVars, sessVars, refineVars>>

HealInit ==
    /\ h_pc = "idle"
    /\ current_sql = <<>>
    /\ attempt = 0
    /\ result = NoResult
    /\ heal_log = <<>>
    /\ corrected_sql = None
    /\ engine_calls = 0
    /\ oracle_calls = 0
    /\ heal_oracle = "none"

MemInit ==
    /\ next_seq = Len(messages) + 1
    /\ inserted = <<>>
    /\ summary = NoSummary
    /\ f_pc = [w \in FoldWorkers |-> "idle"]
    /\ f_existing = [w \in FoldWorkers |-> NoSummary]
    /\ f_unsummarized = [w \in FoldWorkers |-> <<>>]
    /\ f_summary_text = [w \in FoldWorkers |-> {}]
    /\ f_oracle = [w \in FoldWorkers |-> "none"]
    /\ c_pc = [w \in ChatWorkers |-> "idle"]
    /\ context_block = [w \in ChatWorkers |-> NoContext]
    /\ llm_calls = [w \in ChatWorkers |-> 0]
    /\ c_intent = [w \in ChatWorkers |-> "none"]
    /\ turns = 0
    /\ last_turn = NoTurn
    /\ switches = 0

RefineInit ==
    /\ optimizer_enabled = OPTIMIZER_ENABLED
    /\ refined = NoRefinement

UiInit ==
    /\ engine_database = NoDatabase
    /\ app_thread_id = None
    /\ qe_thread_id = None
    /\ app_current_db = NoDatabase
    /\ query_count = 0
    /\ query_history = <<>>
    /\ thread_messages = <<>>
    /\ t_pc = [w \in ChatWorkers |-> "idle"]
    /\ t_thread_id = [w \in ChatWorkers |-> None]

SessInit ==
    /\ process = 1
    /\ pg_conn = "none"
    /\ sessions = {}
    /\ resolved = {}

\* the healing loop, for every caller-supplied query, engine and oracle
InitHeal ==
    /\ current_database \in {NoDatabase} \cup Databases
    /\ messages = <<>>
    /\ ls_active = FALSE
    /\ pg_available = TRUE
    /\ HealInit
    /\ MemInit
    /\ SessInit
    /\ RefineInit
    /\ UiInit

NextHeal ==
    \/ \E sql \in SqlInputs : HealCall(sql)
    \/ \E o \in EngineOutcomes, e \in EngineErrors, ms \in ExecMs : HealExecute(o, e, ms)
    \/ \E o \in HealerOutcomes, a \in HealerAnswers : HealCorrect(o, a)

SpecHeal == InitHeal /\ [][NextHeal]_vars

\* the healing loop when every call of the engine and of the oracle returns:
\* a call in progress takes its next step
HealFairness ==
    /\ WF_vars(\E o \in EngineOutcomes, e \in EngineErrors, ms \in ExecMs :
                   HealExecute(o, e, ms))
    /\ WF_vars(\E o \in HealerOutcomes, a \in HealerAnswers : HealCorrect(o, a))

SpecHealLive == SpecHeal /\ HealFairness

\* the rolling memory of one partition: partition activations run in two
\* worker threads and chat turns, one at a time, in a third, over a store that
\* already holds n0 turns
Init ==
    /\ current_database = NoDatabase
    /\ \E n0 \in InitCounts : messages = [i \in 1 .. n0 |-> i]
    /\ ls_active = FALSE
    /\ pg_available = TRUE
    /\ HealInit
    /\ MemInit
    /\ SessInit
    /\ RefineInit
    /\ UiInit

Next ==
    \/ \E w \in FoldWorkers, db \in Databases, ok \in BOOLEAN : SetDatabaseContext(w, db, ok)
    \/ \E w \in FoldWorkers, ok \in BOOLEAN : FoldRead(w, ok)
    \/ \E w \in FoldWorkers, o \in OracleOutcomes : FoldSummarize(w, o)
    \/ \E w \in FoldWorkers, ok \in BOOLEAN : FoldSave(w, ok)
    \/ \E ok1 \in BOOLEAN, ok2 \in BOOLEAN :
           ChatQuick(1, ChatUtterance("help"), TRUE, ok1, ok2)
    \/ \E ok \in BOOLEAN : ChatGuidance(1, ChatUtterance("general_question"), ok)
    \/ \E r \in BOOLEAN, ok1 \in BOOLEAN, ok2 \in BOOLEAN :
           ChatBuild(1, ChatUtterance("general_question"), r, ok1, ok2)
    \/ \E o \in LlmOutcomes, ok1 \in BOOLEAN, ok2 \in BOOLEAN :
           ChatRespond(1, o, "Timeout", None, "general_question",
                       SubAgentRaised, SubAgentRaised, ok1, ok2)

Spec == Init /\ [][Next]_vars

\* the session registry: thread ids asked for directly and through
\* get_or_create_session, across a restart and store outages
InitSession ==
    /\ current_database = NoDatabase
    /\ messages = <<>>
    /\ ls_active = FALSE
    /\ pg_available \in BOOLEAN
    /\ HealInit
    /\ MemInit
    /\ SessInit
    /\ RefineInit
    /\ UiInit

NextSession ==
    \/ \E h \in HostNames, u \in UserNames, d \in DatabaseNames :
           GenerateThreadId(h, u, d)
    \/ \E d \in DatabaseNames, ok \in BOOLEAN : GetOrCreateSession(d, ok)
    \/ Restart
    \/ \E up \in BOOLEAN : StoreAvailability(up)

SpecSession == InitSession /\ [][NextSession]_vars

\* the refinement pipeline, called for every candidate query and every pair
\* of sub-agent answers
InitRefine ==
    /\ current_database \in Databases
    /\ messages = <<>>
    /\ ls_active = FALSE
    /\ pg_available = TRUE
    /\ HealInit
    /\ MemInit
    /\ SessInit
    /\ optimizer_enabled = TRUE
    /\ refined = NoRefinement
    /\ UiInit

NextRefine ==
    \E sql \in RawSqls, o \in OptimizerResponses, v \in ValidatorResponses :
        RunOptimizerPipeline(sql, o, v)

SpecRefine == InitRefine /\ [][NextRefine]_vars

\* the turn orchestrator: chat turns run in the _run_agent worker threads,
\* traced, with or without an active partition
InitChat ==
    /\ current_database \in {NoDatabase} \cup Databases
    /\ \E n0 \in InitCounts : messages = [i \in 1 .. n0 |-> i]
    /\ ls_active = TRUE
    /\ pg_available = TRUE
    /\ HealInit
    /\ MemInit
    /\ SessInit
    /\ RefineInit
    /\ UiInit

NextChat ==
    \/ \E w \in ChatWorkers, i \in QuickIntents, ok1 \in BOOLEAN, ok2 \in BOOLEAN :
           ChatQuick(w, ChatUtterance(i), TRUE, ok1, ok2)
    \/ \E w \in ChatWorkers, i \in ChatIntents, ok \in BOOLEAN :
           ChatGuidance(w, ChatUtterance(i), ok)
    \/ \E w \in ChatWorkers, i \in ChatIntents, r \in BOOLEAN,
          ok1 \in BOOLEAN, ok2 \in BOOLEAN :
           ChatBuild(w, ChatUtterance(i), r, ok1, ok2)
    \* the oracle call raises: nothing is extracted and nothing is saved
    \/ \E w \in ChatWorkers, e \in LlmErrors, i \in ChatIntents :
           ChatRespond(w, "raises", e, None, i, SubAgentRaised, SubAgentRaised,
                       TRUE, TRUE)
    \* the oracle answers
    \/ \E w \in ChatWorkers, sql \in ChatRawSqls, i \in ChatIntents,
          ok1 \in BOOLEAN, ok2 \in BOOLEAN :
           ChatRespond(w, "text", "Timeout", sql, i, SubAgentRaised, SubAgentRaised,
                       ok1, ok2)

SpecChat == InitChat /\ [][NextChat]_vars

\* the turn orchestrator with the refinement pipeline switched on
\* (OPTIMIZER_ENABLED set): one chat worker, every outcome of the two
\* sub-agents
InitChatRefine ==
    /\ current_database \in Databases
    /\ \E n0 \in InitCounts : messages = [i \in 1 .. n0 |-> i]
    /\ ls_active = TRUE
    /\ pg_available = TRUE
    /\ HealInit
    /\ MemInit
    /\ SessInit
    /\ optimizer_enabled = TRUE
    /\ refined = NoRefinement
    /\ UiInit

NextChatRefine ==
    \/ \E i \in ChatIntents, r \in BOOLEAN, ok1 \in BOOLEAN, ok2 \in BOOLEAN :
           ChatBuild(1, ChatUtterance(i), r, ok1, ok2)
    \* the oracle call raises: nothing is extracted and nothing is saved
    \/ \E i \in ChatIntents :
           ChatRespond(1, "raises", "Timeout", None, i, SubAgentRaised, SubAgentRaised,
                       TRUE, TRUE)
    \* the oracle answers and the pipeline is not run
    \/ \E sql \in RefineRawSqls, i \in ChatIntents, ok \in BOOLEAN :
           /\ ~RunsOptimizer(sql, i)
           /\ ChatRespond(1, "text", "Timeout", sql, i, SubAgentRaised, SubAgentRaised,
                          ok, ok)
    \* the oracle answers and the pipeline is run
    \/ \E sql \in RefineRawSqls, i \in ChatIntents,
          opt \in ChatOptimizerResponses, val \in ChatValidatorResponses,
          ok \in BOOLEAN :
           /\ RunsOptimizer(sql, i)
           /\ ChatRespond(1, "text", "Timeout", sql, i, opt, val, ok, ok)

SpecChatRefine == InitChatRefine /\ [][NextChatRefine]_vars

\* the dispatch of a turn: one chat worker, traced, every kind of utterance,
\* with or without an active partition, the pipeline off as shipped
InitDispatch ==
    /\ current_database \in {NoDatabase} \cup Databases
    /\ messages = <<>>
    /\ ls_active = TRUE
    /\ pg_available = TRUE
    /\ HealInit
    /\ MemInit
    /\ SessInit
    /\ RefineInit
    /\ UiInit

\* the categories of the utterances
DispatchIntents == { u.intent : u \in Utterances }

NextDispatch ==
    \/ \E u \in Utterances, list_ok \in BOOLEAN, ok \in BOOLEAN :
           ChatQuick(1, u, list_ok, ok, ok)
    \/ \E u \in Utterances, list_ok \in BOOLEAN : ChatGuidance(1, u, list_ok)
    \/ \E u \in Utterances : ChatBuild(1, u, FALSE, TRUE, TRUE)
    \/ \E o \in LlmOutcomes, sql \in RefineRawSqls, i \in DispatchIntents, ok \in BOOLEAN :
           ChatRespond(1, o, "Timeout", sql, i, SubAgentRaised, SubAgentRaised, ok, ok)

SpecDispatch == InitDispatch /\ [][NextDispatch]_vars



\* the rolling memory of one partition with the /clear command of the UI
NextClear ==
    \/ Next
    \/ \E ok \in BOOLEAN : ClearThread(ok)

SpecClear == Init /\ [][NextClear]_vars

\* the terminal UI after DBMAApp._initialize: no database selected, the user
\* switching between two databases, running statements and chatting
InitUi ==
    /\ current_database = NoDatabase
    /\ messages = <<>>
    /\ ls_active = FALSE
    /\ pg_available = TRUE
    /\ HealInit
    /\ MemInit
    /\ SessInit
    /\ RefineInit
    /\ UiInit

NextUi ==
    \/ \E db \in TargetDatabases, ok \in BOOLEAN : SwitchDatabase(db, ok)
    \/ \E sql \in UiQueries, success \in BOOLEAN, ok1 \in BOOLEAN, ok2 \in BOOLEAN :
           ExecuteSql(sql, success, ok1, ok2)
    \/ TurnBuild(1)
    \/ \E ok \in BOOLEAN : TurnSaveHuman(1, ok)
    \/ \E ok \in BOOLEAN : TurnSaveAssistant(1, ok)

SpecUi == InitUi /\ [][NextUi]_vars

(***************************************************************************)
(* Properties of the self-healing execution loop (SpecHeal).               *)
(***************************************************************************)
HealReturned == h_pc \in HealReturns

\* C1: one call of execute_with_healing performs at most MAX_HEAL_ATTEMPTS + 1
\* engine executions, and its heal log never has more than MAX_HEAL_ATTEMPTS
\* entries, whatever the engine and the oracle do.
C1_BoundedExecutions ==
    /\ engine_calls <= MAX_HEAL_ATTEMPTS + 1
    /\ Len(heal_log) <= MAX_HEAL_ATTEMPTS

C1_Witness ==
    /\ h_pc = "ret_exhausted"
    /\ engine_calls = MAX_HEAL_ATTEMPTS + 1
    /\ Len(heal_log) = MAX_HEAL_ATTEMPTS

\* C2: a call that returns a failure although every oracle call gave a usable
\* correction (it was not stopped by a no-op answer) has made exactly
\* MAX_HEAL_ATTEMPTS + 1 engine calls and ends in Exhausted: it returns the last
\* failing result and a heal log of exactly MAX_HEAL_ATTEMPTS entries, all of
\* them with success = false.
C2_ExhaustedAfterAllFail ==
    (/\ HealReturned
     /\ h_pc \notin {"ret_nodb", "ret_stopped"}
     /\ ~result.success)
    => /\ h_pc = "ret_exhausted"
       /\ engine_calls = MAX_HEAL_ATTEMPTS + 1
       /\ oracle_calls = MAX_HEAL_ATTEMPTS
       /\ Len(heal_log) = MAX_HEAL_ATTEMPTS
       /\ \A i \in 1 .. Len(heal_log) : ~heal_log[i].success
       /\ heal_log[Len(heal_log)].corrected_sql = current_sql
       /\ result.error # "None"

C2_Witness ==
    /\ h_pc = "ret_exhausted"
    /\ ~result.success
    /\ Len(heal_log) = 3
    /\ heal_log[1].corrected_sql # heal_log[2].corrected_sql
    /\ heal_log[2].corrected_sql # heal_log[3].corrected_sql
    /\ heal_log[1].corrected_sql # heal_log[3].corrected_sql
    /\ \A i \in 1 .. 3 : ~heal_log[i].success

\* C3: when the healer returns nothing, or a text equal after trimming to the
\* query that just failed, the loop stops at once: the call returns, no engine
\* execution is made, nothing is appended to the heal log, and the result
\* returned is the failing result the healer was asked about.
C3_StopOnNoCorrection ==
    [][ (/\ h_pc = "heal"
         /\ \/ ~corrected_sql'.some
            \/ corrected_sql'.text = <<>>
            \/ Strip(corrected_sql'.text) = Strip(current_sql))
        => (/\ h_pc' = "ret_stopped"
            /\ heal_log' = heal_log
            /\ engine_calls' = engine_calls
            /\ result' = result
            /\ ~result'.success) ]_vars

\* the healer's answer differs from the failing query only by whitespace
C3_Witness ==
    /\ h_pc = "ret_stopped"
    /\ corrected_sql.some
    /\ corrected_sql.text # current_sql
    /\ Strip(corrected_sql.text) = Strip(current_sql)
    /\ engine_calls = 1
    /\ heal_log = <<>>
    /\ ~result.success

\* C4 as stated: after a success that follows k >= 1 corrections, all k
\* entries of the heal log are marked success = true.
C4_AllEntriesMarked ==
    h_pc = "ret_success" => \A i \in 1 .. Len(heal_log) : heal_log[i].success

\* C4 amended: after a success that follows k >= 1 corrections the result is a
\* success, the heal log has k entries, and exactly the last entry (the one
\* whose corrected query succeeded) is marked success = true; the k - 1 earlier
\* entries stay success = false.
C4_OnlyLastEntryMarked ==
    h_pc = "ret_success"
    => /\ result.success
       /\ Len(heal_log) = engine_calls - 1
       /\ \A i \in 1 .. Len(heal_log) :
              heal_log[i].success <=> (i = Len(heal_log))

C4_Witness ==
    /\ h_pc = "ret_success"
    /\ result.success
    /\ engine_calls = 3
    /\ Len(heal_log) = 2
    /\ heal_log[1].corrected_sql # heal_log[2].corrected_sql
    /\ ~heal_log[1].success
    /\ heal_log[2].success

(***************************************************************************)
(* Properties of the rolling memory (Spec).                                *)
(***************************************************************************)
\* the persisted turns with sequence_no > seq
TurnsAfter(rows, seq) == { i \in 1 .. Len(rows) : rows[i] > seq }

\* the persisted turns with sequence_no <= seq
TurnsUpTo(rows, seq) == { i \in 1 .. Len(rows) : rows[i] <= seq }

\* C5: if the oracle call of the fold fails (raises, or yields an empty text),
\* the partition's stored summary is left untouched by that fold: text,
\* summarized_up_to_seq and folded count keep their values, and no row is
\* created if there was none.
C5_OracleFailureLeavesSummary ==
    [][ \A w \in FoldWorkers :
          (/\ f_pc[w] = "saving"
           /\ f_oracle[w] \in {"empty", "raises"}
           /\ f_pc'[w] = "idle")
          => summary' = summary ]_vars

\* C6: at every call of _build_rolling_context each turn persisted in the
\* partition is covered by the summary (sequence_no <= summarized_up_to_seq)
\* or is in the recent window the call returns.
C6_NoMessageLost ==
    \A w \in ChatWorkers :
        c_pc[w] = "llm"
        => \A i \in 1 .. Len(context_block[w].seen) :
               \/ context_block[w].seen[i] <= context_block[w].last_seq
               \/ context_block[w].seen[i] \in SeqNos(context_block[w].recent)

\* C7: when update_summary_if_needed persists a summary and no turn was
\* appended since it read the unsummarized turns, exactly RECENT_MESSAGES_COUNT
\* persisted turns have sequence_no > the new summarized_up_to_seq, and the new
\* summarized_up_to_seq is the sequence_no of the last turn that is not among
\* the newest RECENT_MESSAGES_COUNT it read.
C7_FoldKeepsExactWindow ==
    [][ \A w \in FoldWorkers :
          (/\ f_pc[w] = "saving"
           /\ f_pc'[w] = "idle"
           /\ summary' # summary
           /\ messages[Len(messages)] = f_unsummarized[w][Len(f_unsummarized[w])])
          => /\ Cardinality(TurnsAfter(messages', summary'.summarized_up_to_seq))
                   = RECENT_MESSAGES_COUNT
             /\ summary'.summarized_up_to_seq =
                   f_unsummarized[w][Len(f_unsummarized[w]) - RECENT_MESSAGES_COUNT]
             /\ summary'.exists ]_vars

\* 85 turns and no summary: the oldest 45 are folded, and the following
\* _build_rolling_context returns the new summary and exactly 40 turns
C7_Witness ==
    \E w \in ChatWorkers :
        /\ c_pc[w] = "llm"
        /\ Len(context_block[w].seen) = 85
        /\ summary.exists
        /\ summary.updated_at = 1
        /\ summary.summarized_up_to_seq = 45
        /\ context_block[w].last_seq = 45
        /\ context_block[w].summary = 1 .. 45
        /\ Len(context_block[w].recent) = 40

\* C8: the persisted summarized_up_to_seq of the partition never decreases.
C8_UpToSeqNeverDecreases ==
    [][ summary'.summarized_up_to_seq >= summary.summarized_up_to_seq ]_vars

C10_WindowCapped ==
    \A w \in ChatWorkers :
        c_pc[w] = "llm" => Len(context_block[w].recent) <= RECENT_MESSAGES_COUNT

\* a summary exists and more than RECENT_MESSAGES_COUNT turns follow it
C10_Witness ==
    \E w \in ChatWorkers :
        /\ c_pc[w] = "llm"
        /\ context_block[w].last_seq > 0
        /\ Cardinality(TurnsAfter(context_block[w].seen, context_block[w].last_seq))
               > RECENT_MESSAGES_COUNT
        /\ Len(context_block[w].recent) = RECENT_MESSAGES_COUNT

\* C12: two executions of update_summary_if_needed for the partition never
\* overlap: at most one of them is between loading the summary and saving the
\* new one.
C12_FoldsNeverOverlap ==
    Cardinality({ w \in FoldWorkers : f_pc[w] # "idle" }) <= 1

\* C17: a chat turn never runs the fold: no step of a chat turn changes the
\* partition's summary row, the row changes only in the save of an
\* update_summary_if_needed, and an update_summary_if_needed starts only in
\* set_database_context.
C17_ChatNeverFolds ==
    [][ /\ (turns' # turns \/ c_pc' # c_pc) => summary' = summary
        /\ summary' # summary
           => \E w \in FoldWorkers : f_pc[w] = "saving" /\ f_pc'[w] = "idle"
        /\ \A w \in FoldWorkers :
               (f_pc[w] = "idle" /\ f_pc'[w] # "idle") => switches' = switches + 1
      ]_vars

\* a chat turn has saved its two turns on top of 85 unsummarized ones and
\* there still is no summary
C17_Witness ==
    /\ current_database # NoDatabase
    /\ turns > 0
    /\ \A w \in ChatWorkers : c_pc[w] = "idle"
    /\ Len(messages) = 87
    /\ ~summary.exists

\* C18: _build_rolling_context is read-only: the step that builds the context
\* of a turn makes no oracle call and leaves the partition's turns, the
\* sequence counter and the summary row unchanged, on the normal and on the
\* fallback path.
C18_BuildContextReadOnly ==
    [][ \A w \in ChatWorkers :
          (c_pc[w] = "idle" /\ c_pc'[w] = "llm")
          => /\ messages' = messages
             /\ next_seq' = next_seq
             /\ summary' = summary
             /\ llm_calls'[w] = 0 ]_vars

\* a context built without the stored summary (the fallback, or a failed
\* load) from a store that holds more than RECENT_MESSAGES_COUNT turns
C18_Witness ==
    \E w \in ChatWorkers :
        /\ c_pc[w] = "llm"
        /\ summary.exists
        /\ context_block[w].last_seq = 0
        /\ context_block[w].summary = {}
        /\ Len(context_block[w].recent) = RECENT_MESSAGES_COUNT
        /\ context_block[w].seen = messages

(***************************************************************************)
(* Properties of the healing loop under timeouts (SpecHeal).               *)
(***************************************************************************)
\* C16: a timeout of the engine call or of the oracle call inside
\* execute_with_healing is one more failed attempt: the engine timeout counts
\* as an execution and leads to healing or to exhaustion, and after an oracle
\* timeout the attempt is consumed (logged in the heal log) and the loop goes
\* on to the next execution or ends exhausted.
C16_TimeoutConsumesAttempt ==
    [][ /\ (h_pc = "execute" /\ ~result'.success /\ result'.error = EngineTimeout)
           => /\ engine_calls' = engine_calls + 1
              /\ h_pc' \in {"heal", "ret_exhausted"}
        /\ (h_pc = "heal" /\ heal_oracle' = "timeout")
           => /\ Len(heal_log') = Len(heal_log) + 1
              /\ h_pc' \in {"execute", "ret_exhausted", "ret_loop_end"} ]_vars

(***************************************************************************)
(* Properties of the turn orchestrator (SpecChat).                         *)
(***************************************************************************)
\* C11: chat turns of one partition are serialized: at most one turn is
\* between reading its context and persisting its turns.
C11_TurnsSerialized ==
    Cardinality({ w \in ChatWorkers : c_pc[w] = "llm" }) <= 1

C20_OracleFailureSurfaced ==
    [][ \A w \in ChatWorkers :
          (c_pc[w] = "llm" /\ c_pc'[w] = "idle")
          => /\ last_turn'.ret \in {"llm_error", "response"}
             /\ last_turn'.llm_calls = 1
             /\ last_turn'.ret = "llm_error"
                => /\ last_turn'.error \in LlmErrors
                   /\ last_turn'.natural_text = "LLM Error: Make sure Ollama is running"
                   /\ messages' = messages
                   /\ next_seq' = next_seq ]_vars

C20_Witness ==
    /\ last_turn.ret = "llm_error"
    /\ last_turn.error = "Timeout"
    /\ last_turn.llm_calls = 1
    /\ turns = 1
    /\ Len(messages) = 41

(***************************************************************************)
(* Properties of the session registry (SpecSession).                       *)
(***************************************************************************)
\* the (host, principal, target) triple of a recorded call
Triple(r) == << r.host, r.user, r.database >>

C14_DegradedSessionSameId ==
    \A r \in resolved :
        r.via = "get_or_create_session"
        => /\ ~r.raised
           /\ r.thread_id # <<>>
           /\ \A r2 \in resolved :
                  (r2.via = "get_or_create_session" /\ r2.database = r.database)
                  => r2.thread_id = r.thread_id

\* one call with the store up, one for the same database with the store down
C14_Witness ==
    \E r1, r2 \in resolved :
        /\ r1.via = "get_or_create_session" /\ r1.upserted
        /\ r2.via = "get_or_create_session" /\ ~r2.upserted /\ ~r2.store_up
        /\ r1.database = r2.database
        /\ r1.thread_id = r2.thread_id
        /\ ~r2.raised

\* C15: two triples that differ in a component never get the same identifier.
C15_DistinctTriplesDistinctIds ==
    \A r1, r2 \in resolved :
        Triple(r1) # Triple(r2) => r1.thread_id # r2.thread_id

(***************************************************************************)
(* Properties of the heal log and of the loop's termination (SpecHeal,     *)
(* SpecHealLive).                                                          *)
(***************************************************************************)
\* C26: an entry of the heal log is marked success = true only when the
\* engine execution of its corrected query, the one directly following it,
\* succeeded: only the last entry is ever marked, only in a call that returned
\* a success, and with that execution's time; while the call runs, after
\* Exhausted and after an early stop every entry is unsuccessful.
C26_SuccessOnlyOnLastEntry ==
    \A i \in 1 .. Len(heal_log) :
        heal_log[i].success
        => /\ i = Len(heal_log)
           /\ h_pc = "ret_success"
           /\ result.success
           /\ heal_log[i].corrected_sql = current_sql
           /\ result.query = Strip(RStripSemi(Strip(heal_log[i].corrected_sql)))
           /\ heal_log[i].execution_ms = result.execution_ms

\* the third correction succeeded, the first two did not
C26_Witness ==
    /\ h_pc = "ret_success"
    /\ Len(heal_log) = 3
    /\ ~heal_log[1].success
    /\ ~heal_log[2].success
    /\ heal_log[3].success
    /\ heal_log[3].execution_ms = 7

\* C27: the heal log is an ordered chain: entry i has attempt index i, the
\* first entry's failing query is the query the caller passed, each later
\* entry's failing query is the previous entry's corrected query, an entry's
\* error text is the error of the engine execution of its failing query, the
\* query executed next is the last entry's corrected query, and engine
\* executions are made one at a time.
C27_HealLogIsChain ==
    [][ /\ \A i \in 1 .. Len(heal_log') : heal_log'[i].attempt_no = i
        /\ \A i \in 2 .. Len(heal_log') :
               heal_log'[i].original_sql = heal_log'[i - 1].corrected_sql
        /\ \A sql \in SqlInputs :
               (HealCall(sql) /\ h_pc' = "execute") => current_sql' = sql
        /\ (h_pc \in {"execute", "heal"} /\ heal_log = <<>> /\ heal_log' = <<>>)
           => current_sql' = current_sql
        /\ Len(heal_log') = Len(heal_log) + 1
           => LET entry == heal_log'[Len(heal_log')]
              IN  /\ entry.original_sql = current_sql
                  /\ ~result.success
                  /\ result.query \in {current_sql, Strip(RStripSemi(Strip(current_sql)))}
                  /\ \/ entry.error_message = result.error
                     \/ /\ result.error \in {"None", ""}
                        /\ entry.error_message = "Unknown error"
                  /\ entry.corrected_sql = current_sql'
                  /\ SubSeq(heal_log', 1, Len(heal_log)) = heal_log
        /\ (h_pc' = "execute" /\ heal_log' # <<>>)
           => current_sql' = heal_log'[Len(heal_log')].corrected_sql
        /\ engine_calls' \in {0, engine_calls, engine_calls + 1}
        /\ engine_calls' = engine_calls + 1 => h_pc = "execute"
      ]_vars

\* three corrections, each logged with the error of its own execution
C27_Witness ==
    /\ h_pc = "execute"
    /\ Len(heal_log) = 3
    /\ heal_log[1].original_sql = <<" ", "a">>
    /\ heal_log[1].error_message = "E1"
    /\ heal_log[2].error_message = "E2"
    /\ heal_log[3].error_message = EngineTimeout
    /\ heal_log[2].original_sql = heal_log[1].corrected_sql
    /\ current_sql = heal_log[3].corrected_sql

C29_FoldNoOpWithinWindow ==
    [][ \A w \in FoldWorkers :
          (/\ f_pc[w] = "loaded"
           /\ f_pc'[w] # "loaded"
           /\ Cardinality(TurnsAfter(messages, summary.summarized_up_to_seq))
                  <= RECENT_MESSAGES_COUNT)
          => /\ f_pc'[w] = "idle"
             /\ f_oracle'[w] = "none"
             /\ summary' = summary
             /\ messages' = messages ]_vars

\* C30: when the oracle produced a new summary and saving it fails, the
\* stored summary is unchanged and the fold returns normally, and the next
\* activation, reading summarized_up_to_seq fresh, folds a superset of the
\* turns the failed fold had folded.
C30_FailedSaveDeferred ==
    [][ \A w \in FoldWorkers :
          /\ FoldSave(w, FALSE) => (summary' = summary /\ f_pc'[w] = "idle")
          /\ (/\ f_pc[w] = "saving"
              /\ f_pc'[w] = "idle"
              /\ f_oracle[w] = "text"
              /\ summary' = summary)
             => SeqNos(ToFold(f_unsummarized[w]))
                    \subseteq SeqNos(ToFold(get_messages_after_seq(
                                  summary'.summarized_up_to_seq, TRUE))) ]_vars

(***************************************************************************)
(* Properties of the refinement pipeline (SpecRefine).                     *)
(***************************************************************************)
\* whether the validator's classification is one of the three levels (in any
\* letter case)
RecognizedLevel(tag) == tag.some /\ Upper(Strip(tag.text)) \in RiskLevels

\* C23: the risk of a report is always exactly LOW, MEDIUM or HIGH, and
\* whenever the validator gave no classification, or one that is not one of
\* the three levels, it is inferred from the leading verb of the final query:
\* DELETE, DROP, TRUNCATE give HIGH; INSERT, UPDATE, ALTER, CREATE give
\* MEDIUM; anything else LOW.
C23_RiskIsInferredLevel ==
    refined.report.exists
    => LET report == refined.report
           verb == Upper(FirstWord(report.final_sql))
       IN  /\ report.risk_level \in { RiskLow, RiskMedium, RiskHigh }
           /\ ~RecognizedLevel(refined.validator.risk)
              => /\ verb \in { <<"D", "E", "L", "E", "T", "E">>, <<"D", "R", "O", "P">>, <<"T", "R", "U", "N", "C", "A", "T", "E">> }
                    => report.risk_level = RiskHigh
                 /\ verb \in { <<"I", "N", "S", "E", "R", "T">>, <<"U", "P", "D", "A", "T", "E">>, <<"A", "L", "T", "E", "R">>, <<"C", "R", "E", "A", "T", "E">> }
                    => report.risk_level = RiskMedium
                 /\ verb \notin { <<"D", "E", "L", "E", "T", "E">>, <<"D", "R", "O", "P">>, <<"T", "R", "U", "N", "C", "A", "T", "E">>,
                                  <<"I", "N", "S", "E", "R", "T">>, <<"U", "P", "D", "A", "T", "E">>, <<"A", "L", "T", "E", "R">>, <<"C", "R", "E", "A", "T", "E">> }
                    => report.risk_level = RiskLow

\* the validator's classification is not a level and the final query, the
\* candidate itself, starts with a lower-case drop
C23_Witness ==
    /\ refined.report.exists
    /\ refined.validator.risk = Some(<<"H", "I", "G", "H", " ", "r", "i", "s", "k">>)
    /\ refined.report.final_sql = <<"d", "r", "o", "p", " ", "t">>
    /\ refined.report.original_sql = <<"d", "r", "o", "p", " ", "t">>
    /\ refined.report.risk_level = RiskHigh

RECURSIVE CollapseWhitespace(_)
\* a text with every run of whitespace replaced by one space
CollapseWhitespace(s) ==
    IF Len(s) < 2 THEN s
    ELSE IF s[1] \in Whitespace /\ s[2] \in Whitespace
    THEN CollapseWhitespace(Tail(s))
    ELSE <<Head(s)>> \o CollapseWhitespace(Tail(s))

\* a query text with letter case and whitespace normalized
NormalizedQuery(s) == Lower(CollapseWhitespace(Strip(s)))

\* C24: was_modified is the case-insensitive, whitespace-normalized
\* inequality of the original and the final query: false when the two differ
\* only in letter case or in whitespace (leading, trailing or internal), true
\* otherwise.
C24_WasModifiedNormalized ==
    refined.report.exists
    => (refined.report.was_modified
        <=> NormalizedQuery(refined.report.final_sql)
                # NormalizedQuery(refined.report.original_sql))

\* the step appended exactly two Turns for the response: the utterance (role
\* human) and then the response (role assistant, its query and its category)
TwoTurnsAppended(response) ==
    /\ Len(messages') = Len(messages) + 2
    /\ SubSeq(messages', 1, Len(messages)) = messages
    /\ Len(inserted') = Len(inserted) + 2
    /\ SubSeq(inserted', 1, Len(inserted)) = inserted
    /\ LET human == inserted'[Len(inserted) + 1]
           assistant == inserted'[Len(inserted) + 2]
       IN  /\ human.role = "human"
           /\ human.content = response.utterance
           /\ assistant.role = "assistant"
           /\ assistant.content = response.natural_text
           /\ assistant.sql_query = response.sql_query
           /\ assistant.intent = response.intent
           /\ human.sequence_no < assistant.sequence_no
           /\ messages'[Len(messages) + 1] = human.sequence_no
           /\ messages'[Len(messages) + 2] = assistant.sequence_no

C22_StoreFailureKeepsResponse ==
    [][ \A w \in ChatWorkers, ok1 \in BOOLEAN, ok2 \in BOOLEAN :
          (/\ ~(ok1 /\ ok2)
           /\ Len(messages') = Len(save_message(save_message(messages, 0, ok1), 0, ok2))
              \/ NoPartition) =>
            /\ (c_pc[w] = "idle" /\ c_pc' = c_pc /\ turns' = turns + 1)
                  => \A i \in QuickIntents :
                       ChatQuick(w, ChatUtterance(i), TRUE, ok1, ok2)
                           => last_turn' = QuickTurn(i)
            /\ (c_pc[w] = "llm" /\ c_pc'[w] = "idle")
                  => \A sql \in ChatRawSqls, i \in {c_intent[w]} :
                       ChatRespond(w, "text", "Timeout", sql, i,
                                   SubAgentRaised, SubAgentRaised, ok1, ok2)
                           => last_turn' = ResponseTurn(llm_calls[w] + 1, i, sql, sql,
                                                        NoReport)
      ]_vars

\* the only turn of the process came back with its response and its query
\* although neither of its Turns reached the store
C22_Witness ==
    /\ turns = 1
    /\ ~NoPartition
    /\ inserted = <<>>
    /\ last_turn.ret = "response"
    /\ Truthy(last_turn.sql_query)

\* C25: when the oracle call of either refinement stage fails, the pipeline is
\* aborted and the turn falls back to the un-refined candidate: the response
\* is a normal non-error response whose query is the extracted candidate
\* query and which carries no report.
C25_RefinementFailureFallsBack ==
    [][ (c_pc[1] = "llm" /\ c_pc'[1] = "idle") =>
          \A sql \in RefineRawSqls, i \in {c_intent[1]} :
            RunsOptimizer(sql, i) =>
              \A opt \in ChatOptimizerResponses, val \in ChatValidatorResponses :
                (opt.raised \/ val.raised) =>
                  \A ok \in BOOLEAN :
                    ChatRespond(1, "text", "Timeout", sql, i, opt, val, ok, ok)
                        => /\ last_turn'.ret = "response"
                           /\ last_turn'.error = "None"
                           /\ last_turn'.sql_query = sql
                           /\ last_turn'.optimizer_report = NoReport
                           /\ last_turn'.natural_text = "answer"
      ]_vars

\* the validator's oracle call failed after the optimizer had answered, and
\* the turn returned the candidate query
C25_Witness ==
    /\ refined.raised
    /\ refined.invocations = 2
    /\ last_turn.ret = "response"
    /\ last_turn.sql_query = Some(refined.original_sql)
    /\ last_turn.optimizer_report = NoReport

\* the validator was asked after the optimizer, about the optimizer's output
ValidatesRewriteOutput ==
    /\ refined.invocations = 1
          => (refined.optimizer.raised /\ refined.validator = NotInvoked
              /\ refined.sql_to_validate = None)
    /\ refined.invocations = 2
          => /\ ~refined.optimizer.raised
             /\ refined.sql_to_validate =
                    IF Truthy(refined.optimizer.sql) THEN refined.optimizer.sql
                    ELSE Some(refined.original_sql)
             /\ refined.report.exists
                    => refined.report.optimized_sql = refined.sql_to_validate.text

\* a stage without a query block passed its input through; with neither block
\* the final query is the original one and was_modified is false
PassesThrough ==
    refined.report.exists =>
        /\ ~Truthy(refined.optimizer.sql)
              => refined.report.optimized_sql = refined.original_sql
        /\ ~Truthy(refined.validator.sql)
              => refined.report.final_sql = refined.report.optimized_sql
        /\ (~Truthy(refined.optimizer.sql) /\ ~Truthy(refined.validator.sql))
              => /\ refined.report.final_sql = refined.original_sql
                 /\ ~refined.report.was_modified

LeadsWithHighRiskVerb(sql) ==
    /\ sql.some
    /\ sql.text # <<>>
    /\ \E verb \in { <<"D", "E", "L", "E", "T", "E">>, <<"D", "R", "O", "P">>, <<"T", "R", "U", "N", "C", "A", "T", "E">>, <<"U", "P", "D", "A", "T", "E">> } :
          /\ Len(sql.text) >= Len(verb)
          /\ Upper(SubSeq(sql.text, 1, Len(verb))) = verb
          /\ (Len(sql.text) = Len(verb) \/ sql.text[Len(verb) + 1] = " ")

SelfContainedCategories == { "show_databases", "show_tables", "help", "switch_database" }

\* the category of the turn a step starts
StartedCategory == IF c_pc'[1] = "llm" THEN c_intent'[1] ELSE last_turn'.category

\* C32: a turn of a self-contained category (database listing, table listing,
\* help, partition-selection request) short-circuits: it returns its result
\* with or without an active partition, without building context and without
\* any oracle call.
C32_SelfContainedShortCircuits ==
    [][ (turns' = turns + 1 /\ StartedCategory \in SelfContainedCategories)
            => /\ c_pc' = c_pc
               /\ context_block' = context_block
               /\ llm_calls' = llm_calls
               /\ last_turn'.ret = "quick"
               /\ last_turn'.llm_calls = 0
      ]_vars

\* the queries built from a fixed template: SHOW DATABASES, SHOW TABLES FROM
\* the current database, USE of a database named in the utterance
TemplateQueries ==
    { Some(<<"S", "H", "O", "W", " ", "D", "A", "T", "A", "B", "A", "S", "E", "S">>) }
    \cup { Some(<<"S", "H", "O", "W", " ", "T", "A", "B", "L", "E", "S", " ", "F", "R", "O", "M", " ">> \o << Backquote >> \o DbText(db) \o << Backquote >>) : db \in Databases }
    \cup { Some(<<"U", "S", "E", " ">> \o << Backquote >> \o u.use_match.text \o << Backquote >>) :
             u \in { x \in Utterances : x.use_match.some } }

\* C35: unattended execution is never granted to an oracle-produced query:
\* every response with auto_execute = true has requires_confirmation = false
\* and a query built from a fixed template (SHOW DATABASES, SHOW TABLES FROM
\* the current database, USE of a named database); a response whose query came
\* from oracle output always has auto_execute = false.
C35_NoUnattendedOracleQuery ==
    /\ last_turn.auto_execute
          => /\ ~last_turn.requires_confirmation
             /\ last_turn.sql_query \in TemplateQueries
             /\ last_turn.ret = "quick"
             /\ last_turn.llm_calls = 0
    /\ (last_turn.ret = "response" \/ last_turn.llm_calls > 0)
          => ~last_turn.auto_execute

\* a USE of the database named in the utterance is granted unattended
\* execution
C35_Witness ==
    /\ last_turn.auto_execute
    /\ last_turn.category = "switch_database"
    /\ last_turn.sql_query \in TemplateQueries

\* C38: a turn is persisted atomically: the step of a chat turn that saves
\* stores both the utterance and the response or neither, so the partition
\* never holds one without the other.
C38_TurnPersistedAtomically ==
    [][ /\ Len(messages') - Len(messages) \in { 0, 2 }
        /\ Len(inserted') - Len(inserted) \in { 0, 2 }
      ]_vars

\* C39: a turn that ends in an oracle failure or in the no-partition guidance
\* result persists nothing: the turn list of the partition is unchanged by
\* that call of chat.
C39_FailedTurnPersistsNothing ==
    [][ \A w \in ChatWorkers :
          /\ (c_pc[w] = "idle" /\ c_pc' = c_pc /\ turns' = turns + 1)
                => \A i \in ChatIntents, ok \in BOOLEAN :
                     ChatGuidance(w, ChatUtterance(i), ok)
                         => (last_turn'.ret = "guidance"
                             /\ messages' = messages /\ inserted' = inserted)
          /\ (c_pc[w] = "llm" /\ c_pc'[w] = "idle")
                => \A e \in LlmErrors, i \in {c_intent[w]} :
                     ChatRespond(w, "raises", e, None, i,
                                 SubAgentRaised, SubAgentRaised, TRUE, TRUE)
                         => (last_turn'.ret = "llm_error"
                             /\ messages' = messages /\ inserted' = inserted)
      ]_vars

\* two turns were started, the second ended in an oracle failure, and only
\* the two Turns of the first are stored
C39_Witness ==
    /\ turns = 2
    /\ last_turn.ret = "llm_error"
    /\ Len(inserted) = 2
    /\ \A w \in ChatWorkers : c_pc[w] = "idle"

\* C34: clear_thread gives the partition a fresh start: once clear_thread has
\* run its statements for the active partition, the context a chat turn would
\* build for it has an empty summary and an empty recent window.
C34_ClearGivesFreshStart ==
    [][ClearThread(TRUE) =>
           LET ctx == _build_rolling_context(FALSE, TRUE, TRUE)'
           IN  /\ ctx.summary = {}
               /\ ctx.recent = <<>>]_vars

(***************************************************************************)
(* Properties of the terminal UI (SpecUi).                                 *)
(***************************************************************************)
\* C36: a chat turn is persisted to the partition whose context it used: each
\* row a turn's _save_interaction inserts, under any interleaving with a
\* partition switch, carries the thread id the turn read its context from.
C36_TurnSavedToContextPartition ==
    [][\A w \in ChatWorkers :
           (/\ t_pc[w] \in {"llm", "saving"}
            /\ t_pc'[w] # t_pc[w]
            /\ Len(thread_messages') > Len(thread_messages))
           => thread_messages'[Len(thread_messages')].thread_id = t_thread_id[w]]_vars

\* C37: whenever a partition is active, the engine's selected database, the
\* agent's current database and the thread ids of the agent, the UI and the
\* query executor all belong to the same database.
C37_EngineAgentPartitionAgree ==
    ~NoPartition =>
        /\ engine_database = current_database
        /\ app_thread_id = CurrentThreadId
        /\ qe_thread_id = CurrentThreadId

\* C40: an execution requested through the UI, the store accepting every
\* statement, appends exactly one record to the audit history of the active
\* partition, none when no partition is active, and leaves the earlier
\* records as they were.
C40_OneAuditRecordPerExecution ==
    [][\A sql \in UiQueries, success \in BOOLEAN :
           ExecuteSql(sql, success, TRUE, TRUE) =>
               query_history' =
                   IF Truthy(app_thread_id)
                   THEN Append(query_history, AuditRow(app_thread_id, sql, success))
                   ELSE query_history]_vars

====
